----------------------------- MODULE ApiAnswers -----------------------------
(***************************************************************************)
(* A request of the provisioning tool on its way through the API and back: *)
(* the router and the token guard, a handler's error as status and code,   *)
(* what may happen to the answer on the wire, and what the client makes of *)
(* what arrives.                                                           *)
(*                                                                         *)
(* A reply is its status and its body; the body is the handler's result    *)
(* ("payload"), the code of an ApiErrorBody, or bytes that are neither.    *)
(***************************************************************************)
EXTENDS Naturals, FiniteSets

(* The codes of ApiErrorCode; any other that a newer API may send lands on *)
(* Unknown.                                                                *)
Codes == {"internal_error", "invalid_body", "invalid_params", "not_found", "method_not_allowed",
          "unauthorized", "device_already_exists", "device_not_found"}
ReadCode(code) == IF code \in Codes THEN code ELSE "unknown"

Reply(status, body) == [status |-> status, body |-> body]
ApiError(status, code) == Reply(status, code)
Unauthorized == ApiError(401, "unauthorized")
Internal == ApiError(500, "internal_error")

(* An error with details takes its code from their type, which claims one. *)
CodeOf(details) == CASE details = "DeviceAlreadyExistsDetails" -> "device_already_exists"
WithDetails(status, details) == ApiError(status, CodeOf(details))

(* From<DeviceError>: the answers of the registry's refusals and failures. *)
FromDeviceError(error) ==
    CASE error = "already_exists" -> WithDetails(409, "DeviceAlreadyExistsDetails")
      [] error = "not_found" -> ApiError(404, "device_not_found")
      [] error \in {"db", "key_gen"} -> Internal
-------------------------------------------------------------------------------
(* The API's routes. A trailing slash would be another path, an empty last *)
(* segment here.                                                           *)
Addr == "{device_addr}"
DeviceRoutes ==
    {[method |-> "POST", path |-> <<>>, handler |-> "provision_device"],
     [method |-> "GET", path |-> <<>>, handler |-> "get_devices"],
     [method |-> "GET", path |-> <<Addr>>, handler |-> "get_device"],
     [method |-> "POST", path |-> <<Addr, "rotate-key">>, handler |-> "rotate_device_key"]}

(* What the client asks for, below the /devices it prefixes.               *)
ClientRequest(call) ==
    CASE call = "check_auth" -> [method |-> "GET", path |-> <<>>]
      [] call = "device" -> [method |-> "GET", path |-> <<Addr>>]
      [] call = "provision" -> [method |-> "POST", path |-> <<>>]
      [] call = "rotate" -> [method |-> "POST", path |-> <<Addr, "rotate-key">>]

(* require_bearer: a header that is there, is text, starts with "Bearer "  *)
(* and ends in the token of the API's file; the client sends its own token *)
(* so, and whether it is the API's is all that is left open.               *)
RequireBearer(accepted, inner) == IF accepted THEN inner ELSE Unauthorized

(* Path and Json reject what they cannot read before the handler runs.     *)
Extracted(params, body, inner) ==
    CASE ~params -> ApiError(400, "invalid_params")
      [] params /\ ~body -> ApiError(400, "invalid_body")
      [] OTHER -> inner

(* The fallbacks answer without the guard, which wraps matched routes only. *)
Serve(request, accepted, handled) ==
    LET matched == {route \in DeviceRoutes : route.path = request.path} IN
    CASE matched = {} -> ApiError(404, "not_found")
      [] matched # {} /\ ~\E route \in matched : route.method = request.method ->
             ApiError(405, "method_not_allowed")
      [] OTHER -> RequireBearer(accepted, Extracted(TRUE, TRUE, handled))

(* What the client may receive for a reply: it, nothing within its timeout, *)
(* a body cut short, or the error page of a proxy in between.               *)
Silence == Reply(0, "none")
Unreadable == "unreadable"
Arrivals(reply) == {reply, Silence, Reply(reply.status, Unreadable), Reply(502, Unreadable)}
-------------------------------------------------------------------------------
(* The client.                                                             *)

IsSuccess(status) == status \in 200 .. 299

(* Mutant of RejectOnErrorStatus: any error status counts as a refusal.    *)
RejectOnAnyErrorStatus(arrival) ==
    CASE arrival = Silence -> [kind |-> "transport", code |-> "none"]
      [] arrival # Silence /\ ~IsSuccess(arrival.status) ->
             [kind |-> "rejected", code |-> ReadCode(arrival.body)]
      [] OTHER -> [kind |-> "ok", code |-> "none"]

(* reject_on_error_status: a refusal is an error status with a body that   *)
(* says why; without one the client knows no more than from silence.       *)
RejectOnErrorStatus(arrival) ==
    CASE arrival = Silence -> [kind |-> "transport", code |-> "none"]
      [] arrival # Silence /\ ~IsSuccess(arrival.status) /\ arrival.body = Unreadable ->
             [kind |-> "unreadable", code |-> "none"]
      [] arrival # Silence /\ ~IsSuccess(arrival.status) /\ arrival.body # Unreadable ->
             [kind |-> "rejected", code |-> ReadCode(arrival.body)]
      [] OTHER -> [kind |-> "ok", code |-> "none"]

(* handle_response: a success whose body does not parse is no success.     *)
HandleResponse(arrival) ==
    LET checked == RejectOnErrorStatus(arrival) IN
    IF checked.kind = "ok" /\ arrival.body # "payload"
    THEN [kind |-> "unreadable", code |-> "none"] ELSE checked

MayHaveCommitted(result) == result.kind \in {"transport", "unreadable"}

(* `device`: the summary, "none" for device_not_found and nothing else, or *)
(* an error, which is transient unless the API refused.                    *)
AbsentIfNotRegistered(result) ==
    CASE result.kind = "ok" -> "found"
      [] result.kind = "rejected" /\ result.code = "device_not_found" -> "absent"
      [] OTHER -> "error"
IsTransient(result) == result.kind # "rejected"

(* DeviceKeyStatus likewise reads a status of a newer API as Unknown, and  *)
(* `assess` lets the readings decide then.                                 *)
KeyStatuses == {"missing", "invalid", "kek_unavailable", "unopenable", "ok"}
ReadStatus(status) == IF status \in KeyStatuses THEN status ELSE "unknown"
MayReport(status) == ReadStatus(status) \in {"ok", "unknown"}

(* What the client may be told, call by call, by an API that handles the   *)
(* request as `handled`, with a token the API takes or does not take.      *)
Results(call, handled) ==
    {HandleResponse(arrival) : arrival \in UNION {
         Arrivals(Serve(ClientRequest(call), accepted, handled)) : accepted \in BOOLEAN}}
===============================================================================
