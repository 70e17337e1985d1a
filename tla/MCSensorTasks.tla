---------------------------- MODULE MCSensorTasks ----------------------------
(***************************************************************************)
(* The counter's instance under the sensor's tasks.  Two samples: one with *)
(* an ADC below zero, a temperature below zero and between two hundredths  *)
(* and a humidity beyond its range, and one with the SHT failed.  The FICR *)
(* words have bits set in the half that is dropped.                        *)
(***************************************************************************)
EXTENDS SensorTasks, MCSeqCounter

Key == <<17, 2, 255, 64>>
FicrLow == 67305985
FicrHigh == 458752 + 51 * 256 + 6
Cold == [raw |-> -3, sht |-> [milliCelsius |-> -1996, milliPercent |-> 118000]]
Failing == [raw |-> 3321, sht |-> Absent]
SomeSamples == {Cold, Failing}
SomeLinks == {[age |-> 70000, rssi |-> -72, now |-> 100000,
               site |-> <<111, 100, 105, 110>>]}

(* This instance's flash clears bits, erases words whole and is blank of   *)
(* records when erased.                                                    *)
ASSUME SoundFlashAssumption == WritesClearBits /\ ErasesWholeWords /\ BlankIsNoRecord
===============================================================================
