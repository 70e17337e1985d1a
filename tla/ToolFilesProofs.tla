---------------------------- MODULE ToolFilesProofs ----------------------------
(***************************************************************************)
(* What the tool's files promise whatever the number of profiles, APIs,    *)
(* shells, firmware names and builds, and wherever a run is cut: the       *)
(* default profile exists, a token goes to the API it was verified         *)
(* against, a firmware row keeps its image and an image is flashed with    *)
(* its own ranges.  And the range it erases for an image that the build    *)
(* linked is the counter's pages, all of them and nothing else.            *)
(***************************************************************************)
EXTENDS ToolFiles, Integers, TLAPS

(* Profiles.  The file and every copy of it name a configured default.     *)
DefaultKept(c) == c.default # None => c.url[c.default] # None

(* While no two runs overlap, what a run holds is the files as they are,   *)
(* but for the entries of the profile at hand.                             *)
Alone == \A q, r \in Active : q = r

Fits(mine) ==
    LET p == mine.profile IN
    /\ mine.pc \in {"opened", "loaded"} => mine.config = config
    /\ mine.pc = "loaded" => mine.tokens = tokens
    /\ mine.pc \in {"saveConfig", "saveTokens"} =>
           p \in Names /\ \A q \in Names \ {p} : mine.tokens[q] = tokens[q]
    /\ mine.pc = "saveConfig" =>
           /\ \A q \in Names \ {p} : mine.config.url[q] = config.url[q]
           /\ mine.tokens[p] = mine.config.url[p]
    /\ mine.pc = "saveTokens" => mine.tokens[p] \in {None, config.url[p]}

(* A token is its profile's URL's, unless a login was cut half way or a    *)
(* person changed the URL.                                                 *)
Matched == \A p \in Names \ (half \cup edited) : tokens[p] \in {None, config.url[p]}

ProfileInv ==
    /\ TypeOK
    /\ DefaultKept(config) /\ \A r \in Processes : DefaultKept(run[r].config)
    /\ \A r \in Processes :
           run[r].pc \in {"saveConfig", "saveTokens"} => run[r].profile \in Names
    /\ ~raced => Alone /\ Matched /\ \A r \in Processes : Fits(run[r])

(* Firmware.  Only builds that read have rows.                             *)
GoodBuild == {b \in Builds : Firmware!ReadElf(Elf[b]).ok}
GoodRow == {Firmware!RowOf(b) : b \in GoodBuild}
GoodRows == UNION {[S -> GoodRow] : S \in SUBSET FwNames}

Operation ==
    [pc : {"idle", "loaded", "writeImage", "save", "fill", "tidy", "chosen"},
     rows : GoodRows, name : FwNames \cup {None},
     row : GoodRow \cup {None}, old : GoodRow \cup {None}]

RowInv ==
    /\ manifest \in [parses : BOOLEAN, row : GoodRows]
    /\ manifest.parses \/ manifest = Firmware!Unparsable
    /\ \A path \in DOMAIN files : path \in Builds /\ files[path] \in {path, "torn"}
    /\ op \in [Processes -> Operation]
    /\ \A s \in Processes :
        /\ op[s].pc \in {"writeImage", "chosen"} => op[s].row \in GoodRow
        /\ op[s].pc = "writeImage" => op[s].name \in FwNames
    /\ overlapped \in BOOLEAN /\ cut \in BOOLEAN

(* While runs do not overlap: the image of every row the manifest has, or  *)
(* will have when the save is through, is there ...                        *)
Images(rows) == {rows[n].id : n \in DOMAIN rows}
Only == \A s, t \in Firmware!Busy : s = t
KeepsImages(s) ==
    /\ op[s].pc \in {"loaded", "writeImage", "chosen", "tidy"} => op[s].rows = manifest.row
    /\ op[s].pc \in {"save", "fill"} => Images(op[s].rows) \subseteq DOMAIN files
    /\ op[s].pc = "writeImage" => op[s].row.id \in DOMAIN files

(* ... and while none was cut either, nothing else is, but for the image   *)
(* a run is writing or is about to delete.                                 *)
Old(s) == {r.id : r \in {op[s].old} \ {None}}
NoWaste(s) ==
    /\ op[s].pc \in {"loaded", "chosen"} => DOMAIN files = Images(op[s].rows)
    /\ op[s].pc = "writeImage" => DOMAIN files = Images(op[s].rows) \cup {op[s].row.id}
    /\ op[s].pc \in {"save", "fill", "tidy"} => DOMAIN files = Images(op[s].rows) \cup Old(s)
    /\ \A path \in DOMAIN files : files[path] = "torn" =>
           op[s].pc = "writeImage" /\ path = op[s].row.id

Clean ==
    /\ DOMAIN files = Images(manifest.row)
    /\ \A path \in DOMAIN files : files[path] # "torn"

ImageInv ==
    /\ RowInv
    /\ ~overlapped =>
        /\ Only /\ Images(manifest.row) \subseteq DOMAIN files
        /\ \A s \in Processes : KeepsImages(s)
        /\ ~cut => /\ \A s \in Firmware!Busy : NoWaste(s)
                   /\ Firmware!Busy = {} => Clean

-------------------------------------------------------------------------------
Run == [pc : {"idle", "opened", "loaded", "saveConfig", "saveTokens"},
        config : Config, tokens : Tokens, profile : Optional(Names)]

LEMMA NoneApart == None \notin Names /\ None \notin Urls /\ DefaultProfile \in Names
  BY StoreAssumption

LEMMA IdleTyped == /\ Idle \in Run /\ Idle.pc = "idle" /\ DefaultKept(Idle.config)
                   /\ NoConfig \in Config /\ NoTokens \in Tokens
<1>1. NoConfig \in Config /\ NoTokens \in Tokens /\ NoConfig.default = None
  BY DEF NoConfig, NoTokens, Config, Tokens, Optional
<1> QED
  BY <1>1 DEF Idle, Run, DefaultKept, Optional

LEMMA ConfigTyped ==
    ASSUME NEW c \in Config
    PROVE  /\ c.default \in Optional(Names) /\ c.url \in [Names -> Optional(Urls)]
           /\ c = [default |-> c.default, url |-> c.url]
  BY DEF Config

LEMMA RunTyped ==
    ASSUME TypeOK, NEW r \in Processes
    PROVE  /\ run[r] \in Run /\ run[r].config \in Config /\ run[r].tokens \in Tokens
           /\ run[r].profile \in Optional(Names)
           /\ run[r].pc \in {"idle", "opened", "loaded", "saveConfig", "saveTokens"}
<1>1. run[r] \in Run
  BY DEF TypeOK, Run
<1> QED
  BY <1>1 DEF Run

(* What login and logout pick and write.                                   *)
LEMMA TargetTyped ==
    ASSUME NEW c \in Config, NEW arg \in Optional(Names), NEW fallback \in Optional(Names)
    PROVE  /\ Target(c, arg, fallback) \in Optional(Names)
           /\ fallback \in Names => Target(c, arg, fallback) \in Names
  BY ConfigTyped, NoneApart DEF Target, Optional

LEMMA LoginUrlTyped ==
    ASSUME NEW c \in Config, NEW p \in Names, NEW arg \in Optional(Urls)
    PROVE  LoginUrl(c, p, arg) \in Optional(Urls)
<1>1. c.url[p] \in Optional(Urls)
  BY ConfigTyped
<1> QED
  BY <1>1 DEF LoginUrl, ParseUrl, Optional

LEMMA LoginEdits ==
    ASSUME NEW c \in Config, DefaultKept(c), NEW p \in Names, NEW u \in Urls
    PROVE  /\ ConfigAfterLogin(c, p, u) \in Config
           /\ DefaultKept(ConfigAfterLogin(c, p, u))
           /\ ConfigAfterLogin(c, p, u).url[p] = u
           /\ \A q \in Names \ {p} : ConfigAfterLogin(c, p, u).url[q] = c.url[q]
<1>1. c.default \in Optional(Names) /\ c.url \in [Names -> Optional(Urls)]
  BY ConfigTyped
<1> DEFINE d == IF c.default = None THEN p ELSE c.default
           url == [c.url EXCEPT ![p] = u]
<1>2. ConfigAfterLogin(c, p, u) = [default |-> d, url |-> url]
  BY DEF ConfigAfterLogin
<1>3. d \in Optional(Names) /\ url \in [Names -> Optional(Urls)]
  BY <1>1 DEF Optional
<1>4. url[p] = u /\ \A q \in Names \ {p} : url[q] = c.url[q]
  BY <1>1
<1>5. url[d] # None
  <2>1. CASE d = p
    BY <1>4, <2>1, NoneApart
  <2>2. CASE d # p
    <3>1. d = c.default /\ c.default # None /\ d \in Names
      BY <1>1, <2>2 DEF Optional
    <3> QED
      BY <1>4, <2>2, <3>1 DEF DefaultKept
  <2> QED
    BY <2>1, <2>2
<1> HIDE DEF d, url
<1>6. ConfigAfterLogin(c, p, u) \in Config
  BY <1>2, <1>3 DEF Config
<1> QED
  BY <1>2, <1>4, <1>5, <1>6 DEF DefaultKept

LEMMA TokensEdited ==
    ASSUME NEW t \in Tokens, NEW p \in Names, NEW token \in Optional(Urls)
    PROVE  /\ TokensWith(t, p, token) \in Tokens /\ TokensWith(t, p, token)[p] = token
           /\ \A q \in Names \ {p} : TokensWith(t, p, token)[q] = t[q]
  BY DEF TokensWith, Tokens

-------------------------------------------------------------------------------
(* A run under way goes on, or ends, without writing.                      *)
LEMMA RunMoves ==
    ASSUME ProfileInv, NEW r \in Processes, run[r].pc # "idle",
           NEW new \in Run, run' = [run EXCEPT ![r] = new],
           UNCHANGED <<config, tokens, half, edited, raced, runs>>,
           DefaultKept(new.config), ~raced => Fits(new),
           new.pc \in {"saveConfig", "saveTokens"} => new.profile \in Names
    PROVE  ProfileInv'
<1>1. TypeOK /\ run \in [Processes -> Run]
  BY DEF ProfileInv, TypeOK, Run
<1>2. run' \in [Processes -> Run]
  BY <1>1
<1>3. TypeOK'
  BY <1>1, <1>2 DEF TypeOK, Run
<1>4. \A q \in Processes : run'[q] = IF q = r THEN new ELSE run[q]
  BY <1>1
<1>5. DefaultKept(config)' /\ \A q \in Processes : DefaultKept(run'[q].config)
  BY <1>4 DEF ProfileInv, DefaultKept
<1>6. ASSUME ~raced PROVE Alone' /\ Matched' /\ \A q \in Processes : Fits(run[q])'
  <2>1. Active' \subseteq Active
    BY <1>4 DEF Active
  <2>2. Alone'
    BY <1>6, <2>1 DEF ProfileInv, Alone
  <2>3. Matched'
    BY <1>6 DEF ProfileInv, Matched
  <2>4. \A q \in Processes : Fits(run[q])'
    BY <1>4, <1>6 DEF ProfileInv, Fits
  <2> QED
    BY <2>2, <2>3, <2>4
<1>7. raced' = raced
  OBVIOUS
<1>8. (\A r_1 \in Processes : DefaultKept(run[r_1].config))'
  BY <1>5 DEF DefaultKept
<1>9. (\A q \in Processes :
          run[q].pc \in {"saveConfig", "saveTokens"} => run[q].profile \in Names)'
  BY <1>4 DEF ProfileInv
<1> QED
  BY <1>3, <1>5, <1>6, <1>7, <1>8, <1>9 DEF ProfileInv

LEMMA LoadConfigInv ==
    ASSUME ProfileInv, NEW r \in Processes, LoadConfig(r)
    PROVE  ProfileInv'
<1> DEFINE new == [Idle EXCEPT !.pc = "opened", !.config = config]
<1>1. /\ TypeOK /\ run \in [Processes -> Run] /\ run[r].pc = "idle"
      /\ run' = [run EXCEPT ![r] = new]
      /\ raced' = (raced \/ Active # {})
      /\ runs \in 0 .. MaxRuns /\ runs < MaxRuns /\ runs' = runs + 1
      /\ UNCHANGED <<config, tokens, half, edited>>
  BY DEF ProfileInv, TypeOK, LoadConfig, Run
<1>2. new \in Run /\ new.config = config /\ new.pc = "opened"
  BY <1>1, IdleTyped DEF TypeOK, Run, Idle
<1> HIDE DEF new
<1>3. run' \in [Processes -> Run] /\ runs' \in 0 .. MaxRuns /\ raced' \in BOOLEAN
  BY <1>1, <1>2, StoreAssumption DEF TypeOK
<1>4. TypeOK'
  BY <1>1, <1>3 DEF TypeOK, Run
<1>5. \A q \in Processes : run'[q] = IF q = r THEN new ELSE run[q]
  BY <1>1
<1>6. DefaultKept(config)' /\ (\A q \in Processes : DefaultKept(run[q].config))'
  BY <1>1, <1>2, <1>5 DEF ProfileInv, DefaultKept
<1>7. ASSUME ~raced' PROVE Alone' /\ Matched' /\ \A q \in Processes : Fits(run[q])'
  <2>1. ~raced /\ Active = {}
    BY <1>1, <1>7
  <2>2. Active' \subseteq {r}
    BY <1>5, <2>1 DEF Active
  <2>3. Alone'
    BY <2>2 DEF Alone
  <2>4. Matched'
    BY <1>1, <2>1 DEF ProfileInv, Matched
  <2>5. \A q \in Processes : Fits(run[q])'
    BY <1>1, <1>2, <1>5, <2>1 DEF ProfileInv, Fits
  <2> QED
    BY <2>3, <2>4, <2>5
<1>8. (\A q \in Processes :
          run[q].pc \in {"saveConfig", "saveTokens"} => run[q].profile \in Names)'
  BY <1>2, <1>5 DEF ProfileInv
<1> QED
  BY <1>4, <1>6, <1>7, <1>8 DEF ProfileInv

LEMMA LoadTokensInv ==
    ASSUME ProfileInv, NEW r \in Processes, LoadTokens(r)
    PROVE  ProfileInv'
<1> DEFINE new == [run[r] EXCEPT !.pc = "loaded", !.tokens = tokens]
<1>1. TypeOK /\ run[r] \in Run /\ run \in [Processes -> Run] /\ tokens \in Tokens
  BY RunTyped DEF ProfileInv, TypeOK, Run
<1>2. run[r].pc = "opened" /\ run' = [run EXCEPT ![r] = new]
      /\ UNCHANGED <<config, tokens, half, edited, raced, runs>>
  BY <1>1 DEF LoadTokens
<1>3. /\ new \in Run /\ new.pc = "loaded" /\ new.tokens = tokens
      /\ new.config = run[r].config
  BY <1>1 DEF Run
<1>4. DefaultKept(new.config)
  BY <1>3 DEF ProfileInv
<1>5. ~raced => Fits(new)
  BY <1>2, <1>3 DEF ProfileInv, Fits
<1> HIDE DEF new
<1> QED
  BY <1>2, <1>3, <1>4, <1>5, RunMoves

LEMMA LoginInv ==
    ASSUME ProfileInv, NEW r \in Processes, Login(r)
    PROVE  ProfileInv'
<1>1. TypeOK /\ run[r] \in Run /\ run[r].config \in Config /\ run[r].tokens \in Tokens
  BY RunTyped DEF ProfileInv
<1> DEFINE c == run[r].config
<1>2. PICK name \in Optional(Names), arg \in Optional(Urls), token \in Urls :
          LET p == Target(c, name, DefaultProfile)  url == LoginUrl(c, p, arg) IN
          run' = [run EXCEPT ![r] =
              IF url = None \/ ~ CheckAuth(token, url) THEN Idle
              ELSE [pc |-> "saveConfig", profile |-> p,
                    config |-> ConfigAfterLogin(c, p, url),
                    tokens |-> TokensWith(run[r].tokens, p, token)]]
  BY DEF Login
<1> DEFINE p == Target(c, name, DefaultProfile)
           url == LoginUrl(c, p, arg)
           edits == [pc |-> "saveConfig", profile |-> p,
                     config |-> ConfigAfterLogin(c, p, url),
                     tokens |-> TokensWith(run[r].tokens, p, token)]
<1>3. run[r].pc = "loaded" /\ UNCHANGED <<config, tokens, half, edited, raced, runs>>
  BY DEF Login
<1>4. p \in Names /\ url \in Optional(Urls) /\ DefaultKept(c)
  <2>1. DefaultProfile \in Optional(Names)
    BY NoneApart DEF Optional
  <2>2. p \in Names
    BY <1>1, <2>1, TargetTyped, NoneApart
  <2> QED
    BY <1>1, <2>2, LoginUrlTyped DEF ProfileInv
<1>5. run' = [run EXCEPT ![r] = IF url = None \/ ~ CheckAuth(token, url) THEN Idle ELSE edits]
  BY <1>2
<1> HIDE DEF p, url
<1>6. CASE url = None \/ ~ CheckAuth(token, url)
  <2>1. Fits(Idle)
    BY IdleTyped DEF Fits
  <2>2. run' = [run EXCEPT ![r] = Idle]
    BY <1>5, <1>6
  <2> QED
    BY <1>3, <2>1, <2>2, IdleTyped, RunMoves
<1>7. CASE url # None /\ CheckAuth(token, url)
  <2>1. url \in Urls /\ token = url
    BY <1>4, <1>7 DEF Optional, CheckAuth
  <2> DEFINE after == ConfigAfterLogin(c, p, url)  held == TokensWith(run[r].tokens, p, token)
  <2>2. /\ after \in Config /\ DefaultKept(after) /\ after.url[p] = url
        /\ \A q \in Names \ {p} : after.url[q] = c.url[q]
    BY <1>1, <1>4, <2>1, LoginEdits
  <2>3. held \in Tokens /\ held[p] = url /\ \A q \in Names \ {p} : held[q] = run[r].tokens[q]
    BY <1>1, <1>4, <2>1, TokensEdited DEF Optional
  <2> HIDE DEF after, held
  <2>4. /\ edits \in Run /\ edits.pc = "saveConfig" /\ edits.profile = p
        /\ edits.config = after /\ edits.tokens = held
    BY <1>4, <2>2, <2>3 DEF Run, Optional, after, held
  <2>5. ~raced => Fits(edits)
    <3> SUFFICES ASSUME ~raced PROVE Fits(edits)
      OBVIOUS
    <3>1. c = config /\ run[r].tokens = tokens
      BY <1>3 DEF ProfileInv, Fits
    <3> HIDE DEF edits, c
    <3> QED
      BY <1>4, <2>2, <2>3, <2>4, <3>1 DEF Fits
  <2>6. run' = [run EXCEPT ![r] = edits]
    BY <1>5, <1>7
  <2> HIDE DEF edits
  <2> QED
    BY <1>3, <1>4, <2>2, <2>4, <2>5, <2>6, RunMoves
<1> QED
  BY <1>6, <1>7

LEMMA LogoutInv ==
    ASSUME ProfileInv, NEW r \in Processes, Logout(r)
    PROVE  ProfileInv'
<1>1. TypeOK /\ run[r] \in Run /\ run[r].config \in Config /\ run[r].tokens \in Tokens
  BY RunTyped DEF ProfileInv
<1>2. PICK name \in Optional(Names) :
          LET p == Target(run[r].config, name, None) IN
          run' = [run EXCEPT ![r] =
              IF p = None THEN Idle
              ELSE IF run[r].tokens[p] = None THEN Idle
              ELSE [run[r] EXCEPT !.pc = "saveTokens", !.profile = p,
                                  !.tokens = TokensWith(run[r].tokens, p, None)]]
  BY <1>1 DEF Logout, TypeOK
<1> DEFINE p == Target(run[r].config, name, None)
           held == TokensWith(run[r].tokens, p, None)
           edits == [run[r] EXCEPT !.pc = "saveTokens", !.profile = p, !.tokens = held]
<1>3. run[r].pc = "loaded" /\ UNCHANGED <<config, tokens, half, edited, raced, runs>>
  BY DEF Logout
<1>4. run' = [run EXCEPT ![r] = IF p = None \/ run[r].tokens[p] = None THEN Idle ELSE edits]
  BY <1>2
<1>5. p \in Optional(Names)
  BY <1>1, TargetTyped DEF Optional
<1> HIDE DEF p
<1>6. CASE p = None \/ run[r].tokens[p] = None
  <2>1. Fits(Idle)
    BY IdleTyped DEF Fits
  <2>2. run' = [run EXCEPT ![r] = Idle]
    BY <1>4, <1>6
  <2> QED
    BY <1>3, <2>1, <2>2, IdleTyped, RunMoves
<1>7. CASE ~ (p = None \/ run[r].tokens[p] = None)
  <2>1. p \in Names
    BY <1>5, <1>7 DEF Optional
  <2>2. held \in Tokens /\ held[p] = None /\ \A q \in Names \ {p} : held[q] = run[r].tokens[q]
    BY <1>1, <2>1, TokensEdited DEF Optional
  <2> HIDE DEF held
  <2>3. /\ edits \in Run /\ edits.pc = "saveTokens" /\ edits.profile = p
        /\ edits.config = run[r].config /\ edits.tokens = held
    BY <1>1, <1>5, <2>2 DEF Run
  <2>4. run' = [run EXCEPT ![r] = edits]
    BY <1>4, <1>7
  <2> HIDE DEF edits
  <2>5. ~raced => Fits(edits)
    <3> SUFFICES ASSUME ~raced PROVE Fits(edits)
      OBVIOUS
    <3>1. run[r].tokens = tokens
      BY <1>3 DEF ProfileInv, Fits
    <3> QED
      BY <2>1, <2>2, <2>3, <3>1 DEF Fits
  <2>6. DefaultKept(edits.config)
    BY <2>3 DEF ProfileInv
  <2> QED
    BY <1>3, <2>1, <2>3, <2>4, <2>5, <2>6, RunMoves
<1> QED
  BY <1>6, <1>7

LEMMA CutInv ==
    ASSUME ProfileInv, NEW r \in Processes, Cut(r)
    PROVE  ProfileInv'
<1>1. Fits(Idle)
  BY IdleTyped DEF Fits
<1> QED
  BY <1>1, IdleTyped, RunMoves DEF Cut

(* The write of config.toml: the file is the run's copy, or as it was.     *)
LEMMA SaveConfigInv ==
    ASSUME ProfileInv, NEW r \in Processes, SaveConfig(r)
    PROVE  /\ ProfileInv'
           /\ ~raced => /\ tokens' = tokens
                        /\ \A p \in Names : config'.url[p] # config.url[p] => p = run[r].profile
<1>1. TypeOK /\ run[r] \in Run /\ run[r].config \in Config /\ run \in [Processes -> Run]
  BY RunTyped DEF ProfileInv, TypeOK, Run
<1> DEFINE mine == run[r]  new == [mine EXCEPT !.pc = "saveTokens"]
<1>2. /\ mine.pc = "saveConfig" /\ UNCHANGED <<tokens, edited, raced, runs>>
      /\ \/ /\ config' = mine.config /\ half' = half \cup {mine.profile}
            /\ run' = [run EXCEPT ![r] = new]
         \/ config' = config /\ half' = half /\ run' = [run EXCEPT ![r] = Idle]
  <2>1. PICK w \in WriteAtomic(config, run[r].config) :
            /\ config' = w.file
            /\ half' = IF w.ok THEN half \cup {run[r].profile} ELSE half
            /\ run' = [run EXCEPT ![r] = IF w.ok THEN new ELSE Idle]
    BY DEF SaveConfig
  <2>2. /\ mine.pc = "saveConfig" /\ UNCHANGED <<tokens, edited, raced, runs>>
        /\ \/ w = [file |-> run[r].config, ok |-> TRUE]
           \/ w = [file |-> config, ok |-> FALSE]
    BY DEF SaveConfig, WriteAtomic
  <2>3. (w.file = run[r].config /\ w.ok = TRUE) \/ (w.file = config /\ w.ok = FALSE)
    BY <2>2
  <2> HIDE DEF new
  <2>4. CASE w.file = run[r].config /\ w.ok = TRUE
    BY <2>1, <2>2, <2>4
  <2>5. CASE w.file = config /\ w.ok = FALSE
    BY <2>1, <2>2, <2>5
  <2> QED
    BY <2>3, <2>4, <2>5
<1>3. CASE config' = config /\ half' = half /\ run' = [run EXCEPT ![r] = Idle]
  <2>1. Fits(Idle)
    BY IdleTyped DEF Fits
  <2> QED
    BY <1>2, <1>3, <2>1, IdleTyped, RunMoves
<1>4. CASE /\ config' = mine.config /\ half' = half \cup {mine.profile}
           /\ run' = [run EXCEPT ![r] = new]
  <2>1. /\ new \in Run /\ new.pc = "saveTokens" /\ new.config = mine.config
        /\ new.tokens = mine.tokens /\ new.profile = mine.profile
    BY <1>1 DEF Run
  <2>2. mine.profile \in Names
    BY <1>2 DEF ProfileInv
  <2>3. half' \subseteq Names /\ run' \in [Processes -> Run] /\ config' \in Config
    BY <1>1, <1>4, <2>1, <2>2 DEF TypeOK
  <2>4. TypeOK'
    BY <1>1, <1>2, <2>3 DEF TypeOK, Run
  <2>5. \A q \in Processes : run'[q] = IF q = r THEN new ELSE run[q]
    BY <1>1, <1>4
  <2> HIDE DEF new
  <2>6. DefaultKept(config)' /\ (\A q \in Processes : DefaultKept(run[q].config))'
    BY <1>4, <2>1, <2>5 DEF ProfileInv, DefaultKept
  <2>7. ASSUME ~raced
        PROVE  /\ Alone' /\ Matched' /\ (\A q \in Processes : Fits(run[q]))'
               /\ \A p \in Names : config'.url[p] # config.url[p] => p = mine.profile
    <3>1. /\ \A q \in Names \ {mine.profile} :
                 mine.config.url[q] = config.url[q] /\ mine.tokens[q] = tokens[q]
          /\ mine.tokens[mine.profile] = mine.config.url[mine.profile]
      BY <1>2, <2>7 DEF ProfileInv, Fits
    <3>2. Active' = Active /\ \A q \in Processes : q # r => run[q].pc = "idle"
      <4>1. r \in Active /\ \A q \in Active : q = r
        BY <1>2, <2>7 DEF ProfileInv, Alone, Active
      <4>2. \A q \in Processes : run'[q].pc # "idle" <=> run[q].pc # "idle"
        BY <1>2, <2>1, <2>5
      <4> QED
        BY <4>1, <4>2 DEF Active
    <3>3. Alone'
      BY <2>7, <3>2 DEF ProfileInv, Alone
    <3>4. Matched'
      BY <1>2, <1>4, <2>7, <3>1 DEF ProfileInv, Matched
    <3>5. run'[r] = new
      BY <2>5
    <3>6. Fits(run[r])'
      <4>1. \A q \in Names \ {mine.profile} : new.tokens[q] = tokens'[q]
        BY <1>2, <2>1, <3>1
      <4>2. new.tokens[mine.profile] \in {None, config'.url[mine.profile]}
        BY <1>4, <2>1, <3>1
      <4> QED
        BY <2>1, <2>2, <3>5, <4>1, <4>2 DEF Fits
    <3>7. \A q \in Processes : Fits(run[q])'
      <4> SUFFICES ASSUME NEW q \in Processes, q # r PROVE Fits(run[q])'
        BY <3>6
      <4>1. run'[q].pc = "idle"
        BY <2>5, <3>2
      <4> QED
        BY <4>1 DEF Fits
    <3> QED
      BY <1>4, <3>1, <3>3, <3>4, <3>7
  <2>8. (\A q \in Processes :
            run[q].pc \in {"saveConfig", "saveTokens"} => run[q].profile \in Names)'
    BY <2>1, <2>2, <2>5 DEF ProfileInv
  <2> QED
    BY <1>2, <2>4, <2>6, <2>7, <2>8 DEF ProfileInv
<1> QED
  BY <1>2, <1>3, <1>4

(* The write of credentials.toml, which ends the run.                      *)
LEMMA SaveTokensInv ==
    ASSUME ProfileInv, NEW r \in Processes, SaveTokens(r)
    PROVE  /\ ProfileInv'
           /\ ~raced => /\ config' = config
                        /\ \A p \in Names : tokens'[p] # tokens[p] => p = run[r].profile
<1>1. /\ TypeOK /\ run[r] \in Run /\ run[r].tokens \in Tokens /\ run \in [Processes -> Run]
      /\ tokens \in Tokens
  BY RunTyped DEF ProfileInv, TypeOK, Run
<1> DEFINE mine == run[r]
<1>2. /\ mine.pc = "saveTokens" /\ UNCHANGED <<config, edited, raced, runs>>
      /\ run' = [run EXCEPT ![r] = Idle]
      /\ \/ tokens' = mine.tokens /\ half' = half \ {mine.profile}
         \/ tokens' = tokens /\ half' = half
  BY DEF SaveTokens, WriteAtomic
<1>3. CASE tokens' = tokens /\ half' = half
  <2>1. Fits(Idle)
    BY IdleTyped DEF Fits
  <2> QED
    BY <1>2, <1>3, <2>1, IdleTyped, RunMoves
<1>4. CASE tokens' = mine.tokens /\ half' = half \ {mine.profile}
  <2>1. half' \subseteq Names /\ run' \in [Processes -> Run] /\ tokens' \in Tokens
    BY <1>1, <1>2, <1>4, IdleTyped DEF TypeOK
  <2>2. TypeOK'
    BY <1>1, <1>2, <2>1 DEF TypeOK, Run
  <2>3. \A q \in Processes : run'[q] = IF q = r THEN Idle ELSE run[q]
    BY <1>1, <1>2
  <2>4. DefaultKept(config)' /\ (\A q \in Processes : DefaultKept(run[q].config))'
    BY <1>2, <2>3, IdleTyped DEF ProfileInv, DefaultKept
  <2>5. ASSUME ~raced
        PROVE  /\ Alone' /\ Matched' /\ (\A q \in Processes : Fits(run[q]))'
               /\ \A p \in Names : tokens'[p] # tokens[p] => p = mine.profile
    <3>1. /\ \A q \in Names \ {mine.profile} : mine.tokens[q] = tokens[q]
          /\ mine.tokens[mine.profile] \in {None, config.url[mine.profile]}
      BY <1>2, <2>5 DEF ProfileInv, Fits
    <3>2. \A q \in Processes : run'[q].pc = "idle"
      <4>1. r \in Active /\ \A q \in Active : q = r
        BY <1>2, <2>5 DEF ProfileInv, Alone, Active
      <4>2. \A q \in Processes : q # r => run[q].pc = "idle"
        BY <4>1 DEF Active
      <4> QED
        BY <2>3, <4>2, IdleTyped
    <3>3. Alone'
      BY <3>2 DEF Alone, Active
    <3>4. Matched'
      BY <1>2, <1>4, <2>5, <3>1 DEF ProfileInv, Matched
    <3>5. \A q \in Processes : Fits(run[q])'
      BY <3>2 DEF Fits
    <3> QED
      BY <1>4, <3>1, <3>3, <3>4, <3>5
  <2>6. (\A q \in Processes :
            run[q].pc \in {"saveConfig", "saveTokens"} => run[q].profile \in Names)'
    BY <2>3, IdleTyped DEF ProfileInv
  <2> QED
    BY <1>2, <2>2, <2>4, <2>5, <2>6 DEF ProfileInv
<1> QED
  BY <1>2, <1>3, <1>4

LEMMA EditConfigInv ==
    ASSUME ProfileInv, EditConfig
    PROVE  ProfileInv' /\ edited' # edited
<1>1. TypeOK /\ config \in Config
  BY DEF ProfileInv, TypeOK
<1>2. PICK p \in Names \ edited, u \in Urls :
          /\ config.url[p] # None
          /\ config' = [config EXCEPT !.url[p] = u]
          /\ edited' = edited \cup {p}
          /\ raced' = (raced \/ Active # {})
          /\ UNCHANGED <<tokens, run, half, runs>>
  BY DEF EditConfig
<1>3. /\ config' = [default |-> config.default, url |-> [config.url EXCEPT ![p] = u]]
      /\ config.default \in Optional(Names) /\ config.url \in [Names -> Optional(Urls)]
  BY <1>1, <1>2, ConfigTyped
<1>4. /\ config'.default = config.default /\ config'.url[p] = u
      /\ \A q \in Names \ {p} : config'.url[q] = config.url[q]
  BY <1>3
<1>5. config' \in Config
  BY <1>3 DEF Config, Optional
<1>6. edited' \subseteq Names /\ raced' \in BOOLEAN
  BY <1>1, <1>2 DEF TypeOK
<1>7. TypeOK'
  BY <1>1, <1>2, <1>5, <1>6 DEF TypeOK
<1>8. DefaultKept(config)'
  <2> SUFFICES ASSUME config.default # None PROVE config'.url[config.default] # None
    BY <1>4 DEF DefaultKept
  <2>1. config.default \in Names /\ config.url[config.default] # None
    BY <1>3 DEF ProfileInv, DefaultKept, Optional
  <2> QED
    BY <1>4, <2>1, NoneApart
<1>9. (\A q \in Processes : DefaultKept(run[q].config))'
  BY <1>2 DEF ProfileInv, DefaultKept
<1>10. ASSUME ~raced' PROVE Alone' /\ Matched' /\ (\A q \in Processes : Fits(run[q]))'
  <2>1. ~raced /\ Active = {} /\ Active' = {}
    BY <1>2, <1>10 DEF Active
  <2>2. Alone'
    BY <2>1 DEF Alone
  <2>3. Matched'
    BY <1>2, <1>4, <2>1 DEF ProfileInv, Matched
  <2>4. \A q \in Processes : run'[q].pc = "idle"
    BY <1>2, <2>1 DEF Active
  <2>5. (\A q \in Processes : Fits(run[q]))'
    BY <2>4 DEF Fits
  <2> QED
    BY <2>2, <2>3, <2>5
<1>11. (\A q \in Processes :
           run[q].pc \in {"saveConfig", "saveTokens"} => run[q].profile \in Names)'
  BY <1>2 DEF ProfileInv
<1>12. edited' # edited
  BY <1>2
<1> QED
  BY <1>7, <1>8, <1>9, <1>10, <1>11, <1>12 DEF ProfileInv

LEMMA ProfileInit == Init => ProfileInv
<1> SUFFICES ASSUME Init PROVE ProfileInv
  OBVIOUS
<1>1. TypeOK
  <2>1. run \in [Processes -> Run] /\ runs \in 0 .. MaxRuns
    BY IdleTyped, StoreAssumption DEF Init
  <2>2. config \in Config /\ tokens \in Tokens
    BY IdleTyped DEF Init
  <2>3. half \subseteq Names /\ edited \subseteq Names /\ raced \in BOOLEAN
    BY DEF Init
  <2> QED
    BY <2>1, <2>2, <2>3 DEF TypeOK, Run
<1>2. \A r \in Processes : run[r] = Idle
  BY DEF Init
<1>3. DefaultKept(config) /\ \A r \in Processes : DefaultKept(run[r].config)
  BY <1>2, IdleTyped DEF Init, DefaultKept, Idle
<1>4. Alone /\ (\A r \in Processes : Fits(run[r]))
  BY <1>2, IdleTyped DEF Alone, Active, Fits
<1>5. Matched
  BY DEF Init, Matched, NoTokens
<1> QED
  BY <1>1, <1>2, <1>3, <1>4, <1>5, IdleTyped DEF ProfileInv

LEMMA ProfileStutter == ASSUME ProfileInv, UNCHANGED vars PROVE ProfileInv'
<1>1. TypeOK'
  BY DEF ProfileInv, TypeOK, vars
<1>2. DefaultKept(config)' /\ (\A r \in Processes : DefaultKept(run[r].config))'
  BY DEF ProfileInv, DefaultKept, vars
<1>3. ~raced' => Alone' /\ Matched'
  BY DEF ProfileInv, Alone, Active, Matched, vars
<1>4. ~raced' => (\A r \in Processes : Fits(run[r]))'
  BY DEF ProfileInv, Fits, vars
<1>5. (\A q \in Processes :
          run[q].pc \in {"saveConfig", "saveTokens"} => run[q].profile \in Names)'
  BY DEF ProfileInv, vars
<1> QED
  BY <1>1, <1>2, <1>3, <1>4, <1>5 DEF ProfileInv

(* A command on the firmware store starts by counting itself.              *)
LEMMA ProfileCounted ==
    ASSUME ProfileInv, runs < MaxRuns, runs' = runs + 1,
           UNCHANGED <<config, tokens, run, half, edited, raced>>
    PROVE  ProfileInv'
<1>1. runs' \in 0 .. MaxRuns
  BY StoreAssumption DEF ProfileInv, TypeOK
<1>2. TypeOK'
  BY <1>1 DEF ProfileInv, TypeOK
<1>3. DefaultKept(config)' /\ (\A r \in Processes : DefaultKept(run[r].config))'
  BY DEF ProfileInv, DefaultKept
<1>4. ~raced' => Alone' /\ Matched'
  BY DEF ProfileInv, Alone, Active, Matched
<1>5. ~raced' => (\A r \in Processes : Fits(run[r]))'
  BY DEF ProfileInv, Fits
<1>6. (\A q \in Processes :
          run[q].pc \in {"saveConfig", "saveTokens"} => run[q].profile \in Names)'
  BY DEF ProfileInv
<1> QED
  BY <1>2, <1>3, <1>4, <1>5, <1>6 DEF ProfileInv

LEMMA CredentialStepInv == ASSUME ProfileInv, CredentialStep PROVE ProfileInv'
<1>1. CASE EditConfig
  BY <1>1, EditConfigInv
<1>2. ASSUME NEW r \in Processes,
             \/ LoadConfig(r) \/ LoadTokens(r) \/ Login(r) \/ Logout(r)
             \/ SaveConfig(r) \/ SaveTokens(r) \/ Cut(r)
      PROVE  ProfileInv'
  BY <1>2, LoadConfigInv, LoadTokensInv, LoginInv, LogoutInv, SaveConfigInv, SaveTokensInv, CutInv
<1> QED
  BY <1>1, <1>2 DEF CredentialStep

LEMMA FirmwareLeavesProfiles ==
    ASSUME ProfileInv, FirmwareStep
    PROVE  ProfileInv' /\ config' = config /\ tokens' = tokens
<1>1. CASE UNCHANGED vars
  BY <1>1, ProfileStutter DEF vars
<1>2. CASE runs < MaxRuns /\ runs' = runs + 1
           /\ UNCHANGED <<config, tokens, run, half, edited, raced>>
  BY <1>2, ProfileCounted
<1> QED
  BY <1>1, <1>2 DEF FirmwareStep

LEMMA ProfileHolds == ToolSpec => []ProfileInv
<1>1. ToolInit => ProfileInv
  BY ProfileInit DEF ToolInit
<1>2. ProfileInv /\ [ToolNext]_toolVars => ProfileInv'
  <2> SUFFICES ASSUME ProfileInv, [ToolNext]_toolVars PROVE ProfileInv'
    OBVIOUS
  <2>1. CASE CredentialStep
    BY <2>1, CredentialStepInv
  <2>2. CASE FirmwareStep
    BY <2>2, FirmwareLeavesProfiles
  <2>3. CASE UNCHANGED toolVars
    BY <2>3, ProfileStutter DEF toolVars
  <2> QED
    BY <2>1, <2>2, <2>3 DEF ToolNext
<1> QED
  BY <1>1, <1>2, PTL DEF ToolSpec

(* The profile config.toml names as its default is a configured one,       *)
(* whatever runs overlapped or were cut, and whatever a person edited      *)
(* (store.rs login, resolve).                                              *)
THEOREM DefaultStands == ToolSpec => []DefaultConfigured
<1>1. ProfileInv => DefaultConfigured
  <2> SUFFICES ASSUME ProfileInv PROVE DefaultConfigured
    OBVIOUS
  <2>1. Target(config, None, None) = config.default
    BY DEF Target
  <2>2. config.default # None => config.url[config.default] # None
    BY DEF ProfileInv, DefaultKept
  <2>3. CASE config.default = None
    <3>1. Resolve(None, None, None) = Refused("no_profile")
      BY <2>1, <2>3 DEF Resolve
    <3> QED
      BY <3>1 DEF Refused, DefaultConfigured
  <2>4. CASE config.default # None
    <3>1. Resolve(None, None, None) \in
              {Refused("run_login"), Refused("bad_url"),
               [says |-> "target", url |-> config.url[config.default],
                token |-> tokens[config.default]]}
      BY <2>1, <2>2, <2>4 DEF Resolve
    <3>2. Resolve(None, None, None).says \in {"run_login", "bad_url", "target"}
      BY <3>1 DEF Refused
    <3> QED
      BY <3>2 DEF DefaultConfigured
  <2> QED
    BY <2>3, <2>4
<1> QED
  BY <1>1, ProfileHolds, PTL

(* A command sends a token only over https or to its own host, and, unless *)
(* runs overlapped, a login was cut half way or a person changed the URL,  *)
(* only to the API that token was verified against; a URL typed by hand    *)
(* gets the environment's token and no stored one (commands.rs login,      *)
(* store.rs resolve).                                                      *)
THEOREM TokensStayHome == ToolSpec => []TokenGoesHome
<1>1. ProfileInv => TokenGoesHome
  <2> SUFFICES ASSUME ProfileInv, NEW p \in Names, NEW api \in Optional(Urls),
                      NEW env \in Optional(Urls), NEW to, to = Resolve(p, api, env),
                      to.says = "target"
               PROVE  /\ Transport[to.url] \in {"https", "loopback"}
                      /\ to.token = env \/ raced \/ p \in half \cup edited \/ to.token = to.url
    BY DEF TokenGoesHome
  <2>1. \A why : Refused(why).says = why
    BY DEF Refused
  <2>2. Target(config, p, None) = p /\ p # None
    BY NoneApart DEF Target
  <2>3. CASE api # None
    <3>1. to = DirectTarget(api, env)
      BY <2>3 DEF Resolve
    <3>2. ParseUrl(api) # None /\ to.url = api /\ to.token = env
      BY <2>1, <3>1 DEF DirectTarget
    <3>3. Transport[api] \in {"https", "loopback"}
      BY <2>3, <3>2 DEF ParseUrl
    <3> QED
      BY <3>2, <3>3
  <2>4. CASE api = None
    <3>1. /\ config.url[p] # None /\ tokens[p] # None /\ ParseUrl(config.url[p]) # None
          /\ to.url = config.url[p] /\ to.token = tokens[p]
      <4>1. CASE config.url[p] = None
        BY <2>1, <2>2, <2>4, <4>1 DEF Resolve
      <4>2. CASE config.url[p] # None /\ tokens[p] = None
        BY <2>1, <2>2, <2>4, <4>2 DEF Resolve
      <4>3. CASE config.url[p] # None /\ tokens[p] # None /\ ParseUrl(config.url[p]) = None
        BY <2>1, <2>2, <2>4, <4>3 DEF Resolve
      <4>4. CASE config.url[p] # None /\ tokens[p] # None /\ ParseUrl(config.url[p]) # None
        <5>1. to = [says |-> "target", url |-> config.url[p], token |-> tokens[p]]
          BY <2>2, <2>4, <4>4 DEF Resolve
        <5> QED
          BY <4>4, <5>1
      <4> QED
        BY <4>1, <4>2, <4>3, <4>4
    <3>2. Transport[config.url[p]] \in {"https", "loopback"}
      BY <3>1 DEF ParseUrl
    <3>3. raced \/ p \in half \cup edited \/ tokens[p] = config.url[p]
      BY <3>1 DEF ProfileInv, Matched
    <3> QED
      BY <3>1, <3>2, <3>3
  <2> QED
    BY <2>3, <2>4
<1> QED
  BY <1>1, ProfileHolds, PTL

(* Runs one at a time change the entries of their own profile only, in     *)
(* both files (store.rs save: the whole file is written back).             *)
THEOREM OthersUntouched == ToolSpec => OthersKept
<1> DEFINE Kept == ~ raced' /\ edited' = edited =>
                      \A p \in Names :
                          (config'.url[p] # config.url[p] \/ tokens'[p] # tokens[p]) =>
                              \E r \in Active : run[r].profile = p
<1>1. ProfileInv /\ [ToolNext]_toolVars => [Kept]_vars
  <2> SUFFICES ASSUME ProfileInv, [ToolNext]_toolVars PROVE Kept \/ UNCHANGED vars
    OBVIOUS
  <2>1. ASSUME UNCHANGED <<config, tokens>> PROVE Kept
    BY <2>1
  <2>2. CASE FirmwareStep
    BY <2>1, <2>2, FirmwareLeavesProfiles
  <2>3. CASE UNCHANGED toolVars
    BY <2>1, <2>3 DEF toolVars, vars
  <2>4. CASE CredentialStep
    <3>1. CASE EditConfig
      BY <3>1, EditConfigInv
    <3>2. ASSUME NEW r \in Processes, SaveConfig(r) PROVE Kept
      <4>1. r \in Active /\ raced' = raced
        BY <3>2 DEF SaveConfig, Active
      <4> QED
        BY <3>2, <4>1, SaveConfigInv
    <3>3. ASSUME NEW r \in Processes, SaveTokens(r) PROVE Kept
      <4>1. r \in Active /\ raced' = raced
        BY <3>3 DEF SaveTokens, Active
      <4> QED
        BY <3>3, <4>1, SaveTokensInv
    <3>4. ASSUME NEW r \in Processes,
                 LoadConfig(r) \/ LoadTokens(r) \/ Login(r) \/ Logout(r) \/ Cut(r)
          PROVE  Kept
      <4>1. UNCHANGED <<config, tokens>>
        BY <3>4 DEF LoadConfig, LoadTokens, Login, Logout, Cut
      <4> QED
        BY <2>1, <4>1
    <3> QED
      BY <2>4, <3>1, <3>2, <3>3, <3>4 DEF CredentialStep
  <2> QED
    BY <2>2, <2>3, <2>4 DEF ToolNext
<1> QED
  BY <1>1, ProfileHolds, PTL DEF ToolSpec, OthersKept

-------------------------------------------------------------------------------
(* Rows.                                                                   *)
LEMMA GoodRowIs ==
    ASSUME NEW row \in GoodRow
    PROVE  /\ row.id \in Builds /\ row = Firmware!RowOf(row.id) /\ row # None
           /\ Firmware!ReadElf(Elf[row.id]).ok
           /\ row \in Firmware!Row
<1>1. PICK b \in GoodBuild : row = Firmware!RowOf(b)
  BY DEF GoodRow
<1>2. row.id = b /\ b \in Builds /\ Firmware!ReadElf(Elf[b]).ok
  BY <1>1 DEF GoodBuild, Firmware!RowOf
<1>3. row \in Firmware!Row
  BY <1>1, <1>2 DEF Firmware!Row
<1> QED
  BY <1>1, <1>2, <1>3, FirmwareAssumption

LEMMA EmptyRows == <<>> \in GoodRows /\ Images(<<>>) = {}
<1>1. <<>> \in [{} -> GoodRow] /\ DOMAIN <<>> = {}
  OBVIOUS
<1> QED
  BY <1>1 DEF GoodRows, Images

LEMMA RowsAre ==
    ASSUME NEW rows \in GoodRows
    PROVE  DOMAIN rows \subseteq FwNames /\ \A n \in DOMAIN rows : rows[n] \in GoodRow
  BY DEF GoodRows

LEMMA RowsMade ==
    ASSUME NEW S \in SUBSET FwNames, NEW f, DOMAIN f = S,
           f = [n \in S |-> f[n]], \A n \in S : f[n] \in GoodRow
    PROVE  f \in GoodRows
<1>1. f \in [S -> GoodRow]
  OBVIOUS
<1> QED
  BY <1>1 DEF GoodRows

(* A row put in is good, and the images are those of the other rows and    *)
(* its own; the one that went is the only one missing.                     *)
LEMMA RowPut ==
    ASSUME NEW rows \in GoodRows, NEW name \in FwNames, NEW row \in GoodRow
    PROVE  LET new == Firmware!Replace(rows, name, row) IN
           /\ new \in GoodRows /\ Images(new) \subseteq Images(rows) \cup {row.id}
           /\ name \notin DOMAIN rows => Images(new) = Images(rows) \cup {row.id}
           /\ name \in DOMAIN rows =>
                  Images(new) \cup {rows[name].id} = Images(rows) \cup {row.id}
<1> DEFINE new == Firmware!Replace(rows, name, row)
<1>1. /\ DOMAIN new = DOMAIN rows \cup {name} /\ new[name] = row
      /\ \A n \in DOMAIN rows \ {name} : new[n] = rows[n]
  <2>1. new = [x \in DOMAIN rows \cup {name} |-> IF x = name THEN row ELSE rows[x]]
    BY DEF Firmware!Replace, Firmware!With
  <2> HIDE DEF new
  <2> QED
    BY <2>1
<1>2. new = [n \in DOMAIN rows \cup {name} |-> new[n]]
  BY DEF Firmware!Replace, Firmware!With
<1>3. DOMAIN rows \subseteq FwNames /\ \A n \in DOMAIN rows : rows[n] \in GoodRow
  BY RowsAre
<1> HIDE DEF new
<1>4. new \in GoodRows
  BY <1>1, <1>2, <1>3, RowsMade
<1>5. \A n \in DOMAIN new : new[n].id \in Images(rows) \cup {row.id}
  BY <1>1 DEF Images
<1>6. row.id \in Images(new) /\ \A n \in DOMAIN rows \ {name} : rows[n].id \in Images(new)
  BY <1>1 DEF Images
<1>7. Images(new) \subseteq Images(rows) \cup {row.id}
  BY <1>5 DEF Images
<1>8. \A n \in DOMAIN rows : n # name => rows[n].id \in Images(new)
  BY <1>6
<1>9. name \in DOMAIN rows => rows[name].id \in Images(rows)
  BY DEF Images
<1>10. name \notin DOMAIN rows => Images(rows) \subseteq Images(new)
  BY <1>8 DEF Images
<1>11. name \in DOMAIN rows => Images(rows) \subseteq Images(new) \cup {rows[name].id}
  BY <1>8 DEF Images
<1> QED
  BY <1>4, <1>6, <1>7, <1>9, <1>10, <1>11 DEF new

LEMMA RowTaken ==
    ASSUME NEW rows \in GoodRows, NEW name \in DOMAIN rows
    PROVE  LET new == Firmware!Without(rows, name) IN
           new \in GoodRows /\ Images(new) \cup {rows[name].id} = Images(rows)
<1> DEFINE new == Firmware!Without(rows, name)
<1>1. DOMAIN new = DOMAIN rows \ {name} /\ \A n \in DOMAIN rows \ {name} : new[n] = rows[n]
  BY DEF Firmware!Without
<1>2. new = [n \in DOMAIN rows \ {name} |-> new[n]]
  BY DEF Firmware!Without
<1>3. DOMAIN rows \subseteq FwNames /\ \A n \in DOMAIN rows : rows[n] \in GoodRow
  BY RowsAre
<1> HIDE DEF new
<1>4. new \in GoodRows
  BY <1>1, <1>2, <1>3, RowsMade
<1>5. \A n \in DOMAIN new : new[n].id \in Images(rows)
  BY <1>1 DEF Images
<1>6. \A n \in DOMAIN rows : n # name => rows[n].id \in Images(new)
  BY <1>1 DEF Images
<1>7. Images(new) \subseteq Images(rows) /\ rows[name].id \in Images(rows)
  BY <1>5 DEF Images
<1>8. Images(rows) \subseteq Images(new) \cup {rows[name].id}
  BY <1>6 DEF Images
<1> QED
  BY <1>4, <1>7, <1>8 DEF new

(* What a cut write leaves are rows of those that were being written.      *)
LEMMA RowsCut ==
    ASSUME NEW rows \in GoodRows, NEW left \in Firmware!CutSaves(rows)
    PROVE  /\ left \in [parses : BOOLEAN, row : GoodRows]
           /\ left.parses \/ left = Firmware!Unparsable
           /\ Images(left.row) \subseteq Images(rows)
<1>1. CASE left = Firmware!Unparsable
  BY <1>1, EmptyRows DEF Firmware!Unparsable
<1>2. CASE left # Firmware!Unparsable
  <2>1. PICK k \in FwNames \cup {0} :
            left = Firmware!Whole([n \in {m \in DOMAIN rows : m <= k} |-> rows[n]])
    BY <1>2 DEF Firmware!CutSaves
  <2> DEFINE S == {m \in DOMAIN rows : m <= k}
             some == [n \in S |-> rows[n]]
  <2>2. left = [parses |-> TRUE, row |-> some]
    BY <2>1 DEF Firmware!Whole
  <2>3. DOMAIN rows \subseteq FwNames /\ \A n \in DOMAIN rows : rows[n] \in GoodRow
    BY RowsAre
  <2>4. S \subseteq DOMAIN rows
    OBVIOUS
  <2> HIDE DEF S
  <2>5. some \in GoodRows
    BY <2>3, <2>4, RowsMade
  <2>6. \A n \in DOMAIN some : some[n].id \in Images(rows)
    BY <2>4 DEF Images
  <2> HIDE DEF some
  <2>7. Images(some) \subseteq Images(rows)
    BY <2>6 DEF Images
  <2> QED
    BY <2>2, <2>5, <2>7
<1> QED
  BY <1>1, <1>2

-------------------------------------------------------------------------------
(* Runs.                                                                   *)
LEMMA OperationTyped ==
    ASSUME RowInv, NEW s \in Processes
    PROVE  /\ op[s] \in Operation
           /\ op[s].pc \in {"idle", "loaded", "writeImage", "save", "fill", "tidy", "chosen"}
           /\ op[s].rows \in GoodRows /\ op[s].name \in FwNames \cup {None}
           /\ op[s].row \in GoodRow \cup {None} /\ op[s].old \in GoodRow \cup {None}
           /\ op[s].pc \in {"writeImage", "chosen"} => op[s].row \in GoodRow
           /\ op[s].pc = "writeImage" => op[s].name \in FwNames
           /\ manifest.row \in GoodRows
<1>1. /\ op[s] \in Operation /\ manifest.row \in GoodRows
      /\ op[s].pc \in {"writeImage", "chosen"} => op[s].row \in GoodRow
      /\ op[s].pc = "writeImage" => op[s].name \in FwNames
  BY DEF RowInv
<1> QED
  BY <1>1 DEF Operation

LEMMA NoOpTyped ==
    /\ Firmware!NoOp \in Operation /\ Firmware!NoOp.pc = "idle"
  BY EmptyRows DEF Firmware!NoOp, Operation

(* A step of the run in shell s leaves the other runs alone.               *)
LEMMA RowKept ==
    ASSUME RowInv, NEW s \in Processes, NEW new \in Operation,
           op' = [op EXCEPT ![s] = new],
           new.pc \in {"writeImage", "chosen"} => new.row \in GoodRow,
           new.pc = "writeImage" => new.name \in FwNames,
           manifest' \in [parses : BOOLEAN, row : GoodRows],
           manifest'.parses \/ manifest' = Firmware!Unparsable,
           \A path \in DOMAIN files' : path \in Builds /\ files'[path] \in {path, "torn"},
           overlapped' \in BOOLEAN, cut' \in BOOLEAN
    PROVE  RowInv' /\ op'[s] = new /\ \A q \in Processes \ {s} : op'[q] = op[q]
<1>1. op \in [Processes -> Operation]
  BY DEF RowInv
<1>2. op'[s] = new /\ \A q \in Processes \ {s} : op'[q] = op[q]
  BY <1>1
<1>3. op' \in [Processes -> Operation]
  BY <1>1
<1>4. \A q \in Processes :
          /\ op'[q].pc \in {"writeImage", "chosen"} => op'[q].row \in GoodRow
          /\ op'[q].pc = "writeImage" => op'[q].name \in FwNames
  BY <1>2 DEF RowInv
<1> QED
  BY <1>2, <1>3, <1>4 DEF RowInv

(* While it was the only one under way, it is, or none is.                 *)
LEMMA ImageKept ==
    ASSUME ImageInv, NEW s \in Processes, op[s].pc # "idle", RowInv',
           \A q \in Processes \ {s} : op'[q] = op[q],
           overlapped' = overlapped,
           ~overlapped => /\ Images(manifest'.row) \subseteq DOMAIN files'
                          /\ KeepsImages(s)'
                          /\ ~cut' => /\ ~cut
                                      /\ op'[s].pc # "idle" => NoWaste(s)'
                                      /\ op'[s].pc = "idle" => Clean'
    PROVE  ImageInv'
<1>1. SUFFICES ASSUME ~overlapped
               PROVE  /\ Only' /\ Images(manifest'.row) \subseteq DOMAIN files'
                      /\ \A q \in Processes : KeepsImages(q)'
                      /\ ~cut' => /\ \A q \in Firmware!Busy' : NoWaste(q)'
                                  /\ Firmware!Busy' = {} => Clean'
  BY DEF ImageInv
<1>2. \A q \in Processes \ {s} : op'[q].pc = "idle"
  BY <1>1 DEF ImageInv, Only, Firmware!Busy
<1>3. Firmware!Busy' \subseteq {s} /\ (op'[s].pc = "idle" <=> Firmware!Busy' = {})
  BY <1>2 DEF Firmware!Busy
<1>4. Only'
  BY <1>3 DEF Only
<1>5. \A q \in Processes : KeepsImages(q)'
  BY <1>1, <1>2 DEF KeepsImages
<1>6. ASSUME ~cut' PROVE \A q \in Firmware!Busy' : NoWaste(q)'
  BY <1>1, <1>3, <1>6
<1> QED
  BY <1>1, <1>3, <1>4, <1>5, <1>6

(* What the invariant says of a run under way.                             *)
LEMMA RunHolds ==
    ASSUME ImageInv, NEW s \in Processes, op[s].pc # "idle", ~overlapped
    PROVE  /\ Images(manifest.row) \subseteq DOMAIN files /\ KeepsImages(s)
           /\ ~cut => NoWaste(s)
  BY DEF ImageInv, Firmware!Busy

(* A run that wrote nothing ends and leaves the store as it was.           *)
LEMMA IdleAgain ==
    ASSUME ImageInv, NEW s \in Processes, op[s].pc \in {"loaded", "chosen"},
           op' = [op EXCEPT ![s] = Firmware!NoOp],
           UNCHANGED <<manifest, files, overlapped, cut>>
    PROVE  ImageInv'
<1>1. RowInv
  BY DEF ImageInv
<1>2. /\ manifest' \in [parses : BOOLEAN, row : GoodRows]
      /\ manifest'.parses \/ manifest' = Firmware!Unparsable
      /\ \A path \in DOMAIN files' : path \in Builds /\ files'[path] \in {path, "torn"}
      /\ overlapped' \in BOOLEAN /\ cut' \in BOOLEAN
  BY <1>1 DEF RowInv
<1>3. RowInv' /\ op'[s] = Firmware!NoOp /\ \A q \in Processes \ {s} : op'[q] = op[q]
  BY <1>1, <1>2, NoOpTyped, RowKept
<1>4. op[s].pc # "idle" /\ op'[s].pc = "idle"
  BY <1>3, NoOpTyped
<1>5. ASSUME ~overlapped
      PROVE  /\ Images(manifest'.row) \subseteq DOMAIN files'
             /\ KeepsImages(s)' /\ (~cut => Clean')
  <2>1. /\ Images(manifest.row) \subseteq DOMAIN files /\ KeepsImages(s)
        /\ ~cut => NoWaste(s)
    BY <1>4, <1>5, RunHolds
  <2>2. KeepsImages(s)'
    BY <1>4 DEF KeepsImages
  <2>3. op[s].rows = manifest.row /\ op[s].pc # "writeImage"
    BY <2>1 DEF KeepsImages
  <2>4. ~cut => Clean'
    BY <2>1, <2>3 DEF NoWaste, Clean
  <2> QED
    BY <2>1, <2>2, <2>4
<1> QED
  BY <1>3, <1>4, <1>5, ImageKept

LEMMA LoadInv == ASSUME ImageInv, NEW s \in Processes, Firmware!Load(s) PROVE ImageInv'
<1> DEFINE new == [Firmware!NoOp EXCEPT !.pc = "loaded", !.rows = manifest.row]
<1>1. /\ op[s].pc = "idle" /\ op' = [op EXCEPT ![s] = new]
      /\ overlapped' = (overlapped \/ Firmware!Busy # {})
      /\ UNCHANGED <<manifest, files, cut>>
  BY DEF Firmware!Load
<1>2. RowInv /\ manifest.row \in GoodRows
  BY OperationTyped DEF ImageInv
<1>3. new \in Operation /\ new.pc = "loaded" /\ new.rows = manifest.row
  BY <1>2 DEF Firmware!NoOp, Operation
<1>4. /\ manifest' \in [parses : BOOLEAN, row : GoodRows]
      /\ manifest'.parses \/ manifest' = Firmware!Unparsable
      /\ \A path \in DOMAIN files' : path \in Builds /\ files'[path] \in {path, "torn"}
      /\ overlapped' \in BOOLEAN /\ cut' \in BOOLEAN
  BY <1>1, <1>2 DEF RowInv
<1> HIDE DEF new
<1>5. RowInv' /\ op'[s] = new /\ \A q \in Processes \ {s} : op'[q] = op[q]
  BY <1>1, <1>2, <1>3, <1>4, RowKept
<1>6. ASSUME ~overlapped'
      PROVE  /\ Only' /\ Images(manifest'.row) \subseteq DOMAIN files'
             /\ (\A q \in Processes : KeepsImages(q)')
             /\ ~cut' => /\ \A q \in Firmware!Busy' : NoWaste(q)'
                         /\ Firmware!Busy' = {} => Clean'
  <2>1. ~overlapped /\ Firmware!Busy = {}
    BY <1>1, <1>6
  <2>2. Images(manifest.row) \subseteq DOMAIN files /\ (~cut => Clean)
    BY <2>1 DEF ImageInv
  <2>3. \A q \in Processes \ {s} : op'[q].pc = "idle"
    BY <1>5, <2>1 DEF Firmware!Busy
  <2>4. Firmware!Busy' = {s}
    BY <1>3, <1>5, <2>3 DEF Firmware!Busy
  <2>5. Only'
    BY <2>4 DEF Only
  <2>6. \A q \in Processes : KeepsImages(q)'
    BY <1>1, <1>3, <1>5, <2>3 DEF KeepsImages
  <2>7. ~cut => NoWaste(s)'
    BY <1>1, <1>3, <1>5, <2>2 DEF NoWaste, Clean
  <2> QED
    BY <1>1, <2>2, <2>4, <2>5, <2>6, <2>7
<1> QED
  BY <1>5, <1>6 DEF ImageInv

LEMMA AddInv == ASSUME ImageInv, NEW s \in Processes, Firmware!Add(s) PROVE ImageInv'
<1>1. RowInv /\ op[s] \in Operation /\ op[s].pc = "loaded"
      /\ UNCHANGED <<manifest, overlapped, cut>>
  BY OperationTyped DEF ImageInv, Firmware!Add
<1>2. PICK name \in FwNames, b \in Builds :
        IF Firmware!ReadElf(Elf[b]).ok
        THEN /\ op' = [op EXCEPT ![s] = [op[s] EXCEPT !.pc = "writeImage", !.name = name,
                                                      !.row = Firmware!RowOf(b)]]
             /\ files' = Firmware!With(files, Firmware!ImagePath(name, Firmware!RowOf(b)),
                                       "torn")
        ELSE /\ op' = [op EXCEPT ![s] = Firmware!NoOp]
             /\ UNCHANGED files
  BY <1>1 DEF Firmware!Add, RowInv
<1>3. CASE ~ Firmware!ReadElf(Elf[b]).ok
  BY <1>1, <1>2, <1>3, IdleAgain
<1>4. CASE Firmware!ReadElf(Elf[b]).ok
  <2> DEFINE row == Firmware!RowOf(b)
             new == [op[s] EXCEPT !.pc = "writeImage", !.name = name, !.row = row]
  <2>1. row \in GoodRow /\ row.id = b
    BY <1>4 DEF GoodRow, GoodBuild, Firmware!RowOf
  <2>2. /\ new \in Operation /\ new.pc = "writeImage" /\ new.row = row
        /\ new.rows = op[s].rows /\ new.name = name
    BY <1>1, <2>1 DEF Operation
  <2>3. op' = [op EXCEPT ![s] = new] /\ files' = Firmware!With(files, b, "torn")
    BY <1>2, <1>4, <2>1 DEF Firmware!ImagePath
  <2> HIDE DEF row, new
  <2>4. /\ DOMAIN files' = DOMAIN files \cup {b} /\ files'[b] = "torn"
        /\ \A path \in DOMAIN files \ {b} : files'[path] = files[path]
    BY <2>3 DEF Firmware!With
  <2>5. \A path \in DOMAIN files' : path \in Builds /\ files'[path] \in {path, "torn"}
    BY <1>1, <2>4 DEF RowInv
  <2>6. /\ manifest' \in [parses : BOOLEAN, row : GoodRows]
        /\ manifest'.parses \/ manifest' = Firmware!Unparsable
        /\ overlapped' \in BOOLEAN /\ cut' \in BOOLEAN
    BY <1>1 DEF RowInv
  <2>7. RowInv' /\ op'[s] = new /\ \A q \in Processes \ {s} : op'[q] = op[q]
    BY <1>1, <2>1, <2>2, <2>3, <2>5, <2>6, RowKept
  <2>8. ASSUME ~overlapped
        PROVE  /\ Images(manifest'.row) \subseteq DOMAIN files'
               /\ KeepsImages(s)' /\ (~cut => NoWaste(s)')
    <3>1. /\ Images(manifest.row) \subseteq DOMAIN files /\ op[s].rows = manifest.row
          /\ ~cut => NoWaste(s)
      BY <1>1, <2>8, RunHolds DEF KeepsImages
    <3>2. KeepsImages(s)'
      BY <1>1, <2>1, <2>2, <2>4, <2>7, <3>1 DEF KeepsImages
    <3>3. ASSUME ~cut PROVE NoWaste(s)'
      <4>1. DOMAIN files = Images(op[s].rows) /\ \A path \in DOMAIN files : files[path] # "torn"
        BY <1>1, <3>1, <3>3 DEF NoWaste
      <4> QED
        BY <2>1, <2>2, <2>4, <2>7, <4>1 DEF NoWaste
    <3> QED
      BY <1>1, <2>4, <3>1, <3>2, <3>3
  <2>9. op[s].pc # "idle" /\ op'[s].pc # "idle"
    BY <1>1, <2>2, <2>7
  <2> QED
    BY <1>1, <2>7, <2>8, <2>9, ImageKept
<1> QED
  BY <1>3, <1>4

LEMMA WriteImageInv ==
    ASSUME ImageInv, NEW s \in Processes, Firmware!WriteImage(s)
    PROVE  ImageInv'
<1> DEFINE name == op[s].name  row == op[s].row  rows == op[s].rows
           old == IF name \in DOMAIN rows THEN rows[name] ELSE None
           put == Firmware!Replace(rows, name, row)
           new == [op[s] EXCEPT !.pc = "save", !.rows = put, !.old = old]
<1>1. RowInv /\ op[s] \in Operation /\ op[s].pc = "writeImage"
      /\ UNCHANGED <<manifest, overlapped, cut>>
      /\ row \in GoodRow /\ rows \in GoodRows /\ name \in FwNames
  BY OperationTyped DEF ImageInv, Firmware!WriteImage
<1>2. op' = [op EXCEPT ![s] = new] /\ files' = Firmware!With(files, row.id, row.id)
  BY <1>1 DEF Firmware!WriteImage, Firmware!ImagePath, RowInv
<1>3. /\ put \in GoodRows /\ Images(put) \subseteq Images(rows) \cup {row.id}
      /\ name \notin DOMAIN rows => Images(put) = Images(rows) \cup {row.id}
      /\ name \in DOMAIN rows => Images(put) \cup {rows[name].id} = Images(rows) \cup {row.id}
  BY <1>1, RowPut
<1>4. old \in GoodRow \cup {None} /\ (name \in DOMAIN rows => old # None)
  BY <1>1, RowsAre, GoodRowIs
<1>5. Images(put) \cup {r.id : r \in {old} \ {None}} = Images(rows) \cup {row.id}
  BY <1>3, <1>4
<1> HIDE DEF put, old
<1>6. new \in Operation /\ new.pc = "save" /\ new.rows = put /\ new.old = old
  BY <1>1, <1>3, <1>4 DEF Operation
<1>7. /\ DOMAIN files' = DOMAIN files \cup {row.id} /\ files'[row.id] = row.id
      /\ \A path \in DOMAIN files \ {row.id} : files'[path] = files[path]
  BY <1>2 DEF Firmware!With
<1>8. row.id \in Builds /\ row.id # "torn"
  BY <1>1, GoodRowIs, FirmwareAssumption
<1>9. \A path \in DOMAIN files' : path \in Builds /\ files'[path] \in {path, "torn"}
  BY <1>1, <1>7, <1>8 DEF RowInv
<1>10. /\ manifest' \in [parses : BOOLEAN, row : GoodRows]
       /\ manifest'.parses \/ manifest' = Firmware!Unparsable
       /\ overlapped' \in BOOLEAN /\ cut' \in BOOLEAN
  BY <1>1 DEF RowInv
<1> HIDE DEF new
<1>11. RowInv' /\ op'[s] = new /\ \A q \in Processes \ {s} : op'[q] = op[q]
  BY <1>1, <1>2, <1>6, <1>9, <1>10, RowKept
<1>12. ASSUME ~overlapped
       PROVE  /\ Images(manifest'.row) \subseteq DOMAIN files'
              /\ KeepsImages(s)' /\ (~cut => NoWaste(s)')
  <2>1. /\ Images(manifest.row) \subseteq DOMAIN files /\ rows = manifest.row
        /\ row.id \in DOMAIN files
        /\ ~cut => NoWaste(s)
    BY <1>1, <1>12, RunHolds DEF KeepsImages
  <2>2. Images(put) \subseteq DOMAIN files'
    BY <1>3, <1>7, <2>1
  <2>3. KeepsImages(s)'
    BY <1>6, <1>11, <2>2 DEF KeepsImages
  <2>4. ASSUME ~cut PROVE NoWaste(s)'
    <3>1. /\ DOMAIN files = Images(rows) \cup {row.id}
          /\ \A path \in DOMAIN files : files[path] = "torn" => path = row.id
      BY <1>1, <2>1, <2>4 DEF NoWaste
    <3>2. Old(s)' = {r.id : r \in {old} \ {None}}
      BY <1>6, <1>11 DEF Old
    <3>3. DOMAIN files' = Images(put) \cup Old(s)'
      BY <1>5, <1>7, <3>1, <3>2
    <3>4. \A path \in DOMAIN files' : files'[path] # "torn"
      BY <1>7, <1>8, <3>1
    <3> QED
      BY <1>6, <1>11, <3>3, <3>4 DEF NoWaste
  <2> QED
    BY <1>1, <1>7, <2>1, <2>3, <2>4
<1>13. op[s].pc # "idle" /\ op'[s].pc # "idle"
  BY <1>1, <1>6, <1>11
<1> QED
  BY <1>1, <1>11, <1>12, <1>13, ImageKept

(* The steps that leave the image files alone.                             *)
LEMMA FilesKept ==
    ASSUME ImageInv, NEW s \in Processes, op[s].pc # "idle",
           NEW new \in Operation, op' = [op EXCEPT ![s] = new],
           new.pc \notin {"idle", "writeImage"},
           new.pc = "chosen" => new.row \in GoodRow,
           manifest' \in [parses : BOOLEAN, row : GoodRows],
           manifest'.parses \/ manifest' = Firmware!Unparsable,
           UNCHANGED <<files, overlapped, cut>>,
           ~overlapped => /\ Images(manifest'.row) \subseteq DOMAIN files
                          /\ KeepsImages(s)'
                          /\ ~cut => NoWaste(s)'
    PROVE  ImageInv'
<1>1. RowInv
  BY DEF ImageInv
<1>2. /\ \A path \in DOMAIN files' : path \in Builds /\ files'[path] \in {path, "torn"}
      /\ overlapped' \in BOOLEAN /\ cut' \in BOOLEAN
  BY <1>1 DEF RowInv
<1>3. RowInv' /\ op'[s] = new /\ \A q \in Processes \ {s} : op'[q] = op[q]
  BY <1>1, <1>2, RowKept
<1>4. op'[s].pc # "idle"
  BY <1>3
<1> QED
  BY <1>3, <1>4, ImageKept

LEMMA RemoveInv == ASSUME ImageInv, NEW s \in Processes, Firmware!Remove(s) PROVE ImageInv'
<1> DEFINE rows == op[s].rows
<1>1. /\ RowInv /\ op[s] \in Operation /\ op \in [Processes -> Operation]
      /\ op[s].pc = "loaded" /\ rows \in GoodRows
      /\ UNCHANGED <<manifest, files, overlapped, cut>>
  BY OperationTyped DEF ImageInv, RowInv, Firmware!Remove
<1>2. PICK name \in FwNames :
          op' = [op EXCEPT ![s] =
              IF name \notin DOMAIN rows THEN Firmware!NoOp
              ELSE [op[s] EXCEPT !.pc = "save", !.name = name,
                                 !.rows = Firmware!Without(rows, name), !.old = rows[name]]]
  BY <1>1 DEF Firmware!Remove
<1>3. CASE name \notin DOMAIN rows
  BY <1>1, <1>2, <1>3, IdleAgain
<1>4. CASE name \in DOMAIN rows
  <2> DEFINE less == Firmware!Without(rows, name)  old == rows[name]
             new == [op[s] EXCEPT !.pc = "save", !.name = name, !.rows = less, !.old = old]
  <2>1. /\ less \in GoodRows /\ old \in GoodRow /\ old # None
        /\ Images(less) \cup {old.id} = Images(rows)
    BY <1>1, <1>4, RowTaken, RowsAre, GoodRowIs
  <2>2. op' = [op EXCEPT ![s] = new]
    BY <1>2, <1>4
  <2> HIDE DEF less, old
  <2>3. new \in Operation /\ new.pc = "save" /\ new.rows = less /\ new.old = old
    BY <1>1, <2>1 DEF Operation
  <2> HIDE DEF new
  <2>4. op'[s] = new
    BY <1>1, <2>2
  <2>5. ASSUME ~overlapped
        PROVE  /\ Images(manifest'.row) \subseteq DOMAIN files
               /\ KeepsImages(s)' /\ (~cut => NoWaste(s)')
    <3>1. /\ Images(manifest.row) \subseteq DOMAIN files /\ rows = manifest.row
          /\ ~cut => NoWaste(s)
      BY <1>1, <2>5, RunHolds DEF KeepsImages
    <3>2. KeepsImages(s)'
      BY <1>1, <2>1, <2>3, <2>4, <3>1 DEF KeepsImages
    <3>3. ASSUME ~cut PROVE NoWaste(s)'
      <4>1. DOMAIN files = Images(rows) /\ \A path \in DOMAIN files : files[path] # "torn"
        BY <1>1, <3>1, <3>3 DEF NoWaste
      <4>2. Old(s)' = {old.id}
        BY <2>1, <2>3, <2>4 DEF Old
      <4> QED
        BY <1>1, <2>1, <2>3, <2>4, <4>1, <4>2 DEF NoWaste
    <3> QED
      BY <1>1, <3>1, <3>2, <3>3
  <2>6. op[s].pc # "idle" /\ new.pc \notin {"idle", "writeImage", "chosen"}
    BY <1>1, <2>3
  <2>7. /\ manifest' \in [parses : BOOLEAN, row : GoodRows]
        /\ manifest'.parses \/ manifest' = Firmware!Unparsable
    BY <1>1 DEF RowInv
  <2> QED
    BY <1>1, <2>2, <2>3, <2>5, <2>6, <2>7, FilesKept
<1> QED
  BY <1>3, <1>4

LEMMA ChooseFirmwareInv ==
    ASSUME ImageInv, NEW s \in Processes, Firmware!ChooseFirmware(s)
    PROVE  ImageInv'
<1> DEFINE rows == op[s].rows
<1>1. /\ RowInv /\ op[s] \in Operation /\ op \in [Processes -> Operation]
      /\ op[s].pc = "loaded" /\ rows \in GoodRows
      /\ UNCHANGED <<manifest, files, overlapped, cut>>
  BY OperationTyped DEF ImageInv, RowInv, Firmware!ChooseFirmware
<1>2. PICK name \in FwNames :
          op' = [op EXCEPT ![s] =
              IF name \notin DOMAIN rows THEN Firmware!NoOp
              ELSE [op[s] EXCEPT !.pc = "chosen", !.name = name, !.row = rows[name]]]
  BY <1>1 DEF Firmware!ChooseFirmware
<1>3. CASE name \notin DOMAIN rows
  BY <1>1, <1>2, <1>3, IdleAgain
<1>4. CASE name \in DOMAIN rows
  <2> DEFINE new == [op[s] EXCEPT !.pc = "chosen", !.name = name, !.row = rows[name]]
  <2>1. rows[name] \in GoodRow
    BY <1>1, <1>4, RowsAre
  <2>2. op' = [op EXCEPT ![s] = new]
    BY <1>2, <1>4
  <2>3. new \in Operation /\ new.pc = "chosen" /\ new.rows = rows /\ new.row = rows[name]
    BY <1>1, <2>1 DEF Operation
  <2> HIDE DEF new
  <2>4. op'[s] = new
    BY <1>1, <2>2
  <2>5. ASSUME ~overlapped
        PROVE  /\ Images(manifest'.row) \subseteq DOMAIN files
               /\ KeepsImages(s)' /\ (~cut => NoWaste(s)')
    <3>1. /\ Images(manifest.row) \subseteq DOMAIN files /\ rows = manifest.row
          /\ ~cut => NoWaste(s)
      BY <1>1, <2>5, RunHolds DEF KeepsImages
    <3>2. KeepsImages(s)'
      BY <1>1, <2>3, <2>4, <3>1 DEF KeepsImages
    <3>3. ASSUME ~cut PROVE NoWaste(s)'
      <4>1. DOMAIN files = Images(rows) /\ \A path \in DOMAIN files : files[path] # "torn"
        BY <1>1, <3>1, <3>3 DEF NoWaste
      <4> QED
        BY <1>1, <2>3, <2>4, <4>1 DEF NoWaste
    <3> QED
      BY <1>1, <3>1, <3>2, <3>3
  <2>6. op[s].pc # "idle" /\ new.pc \notin {"idle", "writeImage"} /\ new.row \in GoodRow
    BY <1>1, <2>1, <2>3
  <2>7. /\ manifest' \in [parses : BOOLEAN, row : GoodRows]
        /\ manifest'.parses \/ manifest' = Firmware!Unparsable
    BY <1>1 DEF RowInv
  <2> QED
    BY <1>1, <2>2, <2>3, <2>5, <2>6, <2>7, FilesKept
<1> QED
  BY <1>3, <1>4

LEMMA TruncateInv ==
    ASSUME ImageInv, NEW s \in Processes, Firmware!Truncate(s)
    PROVE  ImageInv'
<1> DEFINE new == [op[s] EXCEPT !.pc = "fill"]
<1>1. /\ RowInv /\ op[s] \in Operation /\ op \in [Processes -> Operation]
      /\ op[s].pc = "save" /\ op' = [op EXCEPT ![s] = new]
      /\ manifest' = [parses |-> TRUE, row |-> <<>>]
      /\ UNCHANGED <<files, overlapped, cut>>
  BY OperationTyped DEF ImageInv, RowInv, Firmware!Truncate, Firmware!Whole
<1>2. new \in Operation /\ new.pc = "fill" /\ new.rows = op[s].rows /\ new.old = op[s].old
  BY <1>1 DEF Operation
<1> HIDE DEF new
<1>3. op'[s] = new
  BY <1>1
<1>4. ASSUME ~overlapped
      PROVE  /\ Images(manifest'.row) \subseteq DOMAIN files
             /\ KeepsImages(s)' /\ (~cut => NoWaste(s)')
  <2>1. KeepsImages(s) /\ (~cut => NoWaste(s))
    BY <1>1, <1>4, RunHolds
  <2>2. KeepsImages(s)'
    BY <1>1, <1>2, <1>3, <2>1 DEF KeepsImages
  <2>3. Old(s)' = Old(s)
    BY <1>2, <1>3 DEF Old
  <2>4. ~cut => NoWaste(s)'
    BY <1>1, <1>2, <1>3, <2>1, <2>3 DEF NoWaste
  <2> QED
    BY <1>1, <2>2, <2>4, EmptyRows
<1>5. /\ manifest' \in [parses : BOOLEAN, row : GoodRows] /\ manifest'.parses
      /\ op[s].pc # "idle" /\ new.pc \notin {"idle", "writeImage", "chosen"}
  BY <1>1, <1>2, EmptyRows
<1> QED
  BY <1>1, <1>2, <1>4, <1>5, FilesKept

LEMMA FillInv == ASSUME ImageInv, NEW s \in Processes, Firmware!Fill(s) PROVE ImageInv'
<1> DEFINE new == [op[s] EXCEPT !.pc = "tidy"]
<1>1. /\ RowInv /\ op[s] \in Operation /\ op \in [Processes -> Operation]
      /\ op[s].pc = "fill" /\ op[s].rows \in GoodRows /\ op' = [op EXCEPT ![s] = new]
      /\ manifest' = [parses |-> TRUE, row |-> op[s].rows]
      /\ UNCHANGED <<files, overlapped, cut>>
  BY OperationTyped DEF ImageInv, RowInv, Firmware!Fill, Firmware!Whole
<1>2. new \in Operation /\ new.pc = "tidy" /\ new.rows = op[s].rows /\ new.old = op[s].old
  BY <1>1 DEF Operation
<1> HIDE DEF new
<1>3. op'[s] = new /\ manifest'.row = op[s].rows
  BY <1>1
<1>4. ASSUME ~overlapped
      PROVE  /\ Images(manifest'.row) \subseteq DOMAIN files
             /\ KeepsImages(s)' /\ (~cut => NoWaste(s)')
  <2>1. KeepsImages(s) /\ (~cut => NoWaste(s))
    BY <1>1, <1>4, RunHolds
  <2>2. Images(op[s].rows) \subseteq DOMAIN files
    BY <1>1, <2>1 DEF KeepsImages
  <2>3. KeepsImages(s)'
    BY <1>2, <1>3 DEF KeepsImages
  <2>4. Old(s)' = Old(s)
    BY <1>2, <1>3 DEF Old
  <2>5. ~cut => NoWaste(s)'
    BY <1>1, <1>2, <1>3, <2>1, <2>4 DEF NoWaste
  <2> QED
    BY <1>3, <2>2, <2>3, <2>5
<1>5. /\ manifest' \in [parses : BOOLEAN, row : GoodRows] /\ manifest'.parses
      /\ op[s].pc # "idle" /\ new.pc \notin {"idle", "writeImage", "chosen"}
  BY <1>1, <1>2
<1> QED
  BY <1>1, <1>2, <1>4, <1>5, FilesKept

(* A run ends: the others are idle, and what it leaves is what the         *)
(* invariant asks of a store at rest.                                      *)
LEMMA RunEnds ==
    ASSUME ImageInv, NEW s \in Processes, op[s].pc # "idle",
           op' = [op EXCEPT ![s] = Firmware!NoOp],
           manifest' \in [parses : BOOLEAN, row : GoodRows],
           manifest'.parses \/ manifest' = Firmware!Unparsable,
           \A path \in DOMAIN files' : path \in Builds /\ files'[path] \in {path, "torn"},
           overlapped' = overlapped, cut' \in BOOLEAN,
           ~overlapped => /\ Images(manifest'.row) \subseteq DOMAIN files'
                          /\ ~cut' => ~cut /\ Clean'
    PROVE  ImageInv'
<1>1. RowInv /\ overlapped' \in BOOLEAN
  BY DEF ImageInv, RowInv
<1>2. RowInv' /\ op'[s] = Firmware!NoOp /\ \A q \in Processes \ {s} : op'[q] = op[q]
  BY <1>1, NoOpTyped, RowKept
<1>3. op'[s].pc = "idle" /\ KeepsImages(s)'
  BY <1>2, NoOpTyped DEF KeepsImages
<1> QED
  BY <1>2, <1>3, ImageKept

LEMMA TidyInv == ASSUME ImageInv, NEW s \in Processes, Firmware!Tidy(s) PROVE ImageInv'
<1> DEFINE rows == op[s].rows  old == op[s].old
<1>1. /\ RowInv /\ op[s].pc = "tidy" /\ rows \in GoodRows /\ old \in GoodRow \cup {None}
      /\ op' = [op EXCEPT ![s] = Firmware!NoOp]
      /\ UNCHANGED <<manifest, overlapped, cut>>
      /\ files' = IF old # None /\ Firmware!Unreferenced(rows, old)
                  THEN Firmware!Without(files, old.id) ELSE files
  BY OperationTyped DEF ImageInv, Firmware!Tidy, Firmware!ImagePath
<1>2. Firmware!Unreferenced(rows, old) <=> old.id \notin Images(rows)
  BY DEF Firmware!Unreferenced, Images
<1>3. /\ DOMAIN files' = IF old # None /\ old.id \notin Images(rows)
                         THEN DOMAIN files \ {old.id} ELSE DOMAIN files
      /\ \A path \in DOMAIN files' : files'[path] = files[path]
  BY <1>1, <1>2 DEF Firmware!Without
<1>4. \A path \in DOMAIN files' : path \in Builds /\ files'[path] \in {path, "torn"}
  BY <1>1, <1>3 DEF RowInv
<1>5. ASSUME ~overlapped
      PROVE  /\ Images(manifest'.row) \subseteq DOMAIN files'
             /\ ~cut => Clean'
  <2>1. /\ Images(manifest.row) \subseteq DOMAIN files /\ rows = manifest.row
        /\ ~cut => NoWaste(s)
    BY <1>1, <1>5, RunHolds DEF KeepsImages
  <2>2. Images(manifest'.row) \subseteq DOMAIN files'
    BY <1>1, <1>3, <2>1
  <2>3. ASSUME ~cut PROVE Clean'
    <3>1. /\ DOMAIN files = Images(rows) \cup Old(s)
          /\ \A path \in DOMAIN files : files[path] # "torn"
      BY <1>1, <2>1, <2>3 DEF NoWaste
    <3>2. Old(s) = IF old = None THEN {} ELSE {old.id}
      BY DEF Old
    <3>3. DOMAIN files' = Images(rows)
      BY <1>3, <3>1, <3>2
    <3> QED
      BY <1>1, <1>3, <2>1, <3>1, <3>3 DEF Clean
  <2> QED
    BY <2>2, <2>3
<1>6. /\ manifest' \in [parses : BOOLEAN, row : GoodRows]
      /\ manifest'.parses \/ manifest' = Firmware!Unparsable
      /\ cut' \in BOOLEAN /\ op[s].pc # "idle"
  BY <1>1 DEF RowInv
<1> QED
  BY <1>1, <1>4, <1>5, <1>6, RunEnds

LEMMA CutShortInv ==
    ASSUME ImageInv, NEW s \in Processes, Firmware!CutShort(s)
    PROVE  ImageInv'
<1>1. /\ RowInv /\ op[s].pc # "idle" /\ op[s].rows \in GoodRows
      /\ op[s].pc \in {"idle", "loaded", "writeImage", "save", "fill", "tidy", "chosen"}
      /\ op' = [op EXCEPT ![s] = Firmware!NoOp]
      /\ cut' = (cut \/ op[s].pc \in {"writeImage", "save", "fill", "tidy"})
      /\ UNCHANGED <<files, overlapped>>
      /\ \/ op[s].pc = "fill" /\ manifest' \in Firmware!CutSaves(op[s].rows)
         \/ op[s].pc # "fill" /\ manifest' = manifest
  BY OperationTyped DEF ImageInv, Firmware!CutShort
<1>2. /\ manifest' \in [parses : BOOLEAN, row : GoodRows]
      /\ manifest'.parses \/ manifest' = Firmware!Unparsable
      /\ op[s].pc = "fill" => Images(manifest'.row) \subseteq Images(op[s].rows)
  BY <1>1, RowsCut DEF RowInv
<1>3. /\ \A path \in DOMAIN files' : path \in Builds /\ files'[path] \in {path, "torn"}
      /\ cut' \in BOOLEAN
  BY <1>1 DEF RowInv
<1>4. ASSUME ~overlapped
      PROVE  /\ Images(manifest'.row) \subseteq DOMAIN files'
             /\ ~cut' => ~cut /\ Clean'
  <2>1. /\ Images(manifest.row) \subseteq DOMAIN files /\ KeepsImages(s)
        /\ ~cut => NoWaste(s)
    BY <1>1, <1>4, RunHolds
  <2>2. Images(manifest'.row) \subseteq DOMAIN files'
    BY <1>1, <1>2, <2>1 DEF KeepsImages
  <2>3. ASSUME ~cut' PROVE ~cut /\ Clean'
    <3>1. ~cut /\ op[s].pc \in {"loaded", "chosen"} /\ manifest' = manifest
      BY <1>1, <2>3
    <3>2. op[s].rows = manifest.row
      BY <2>1, <3>1 DEF KeepsImages
    <3> QED
      BY <1>1, <2>1, <3>1, <3>2 DEF NoWaste, Clean
  <2> QED
    BY <2>2, <2>3
<1> QED
  BY <1>1, <1>2, <1>3, <1>4, RunEnds

-------------------------------------------------------------------------------
LEMMA ImageInit == Firmware!FwInit => ImageInv
<1> SUFFICES ASSUME Firmware!FwInit PROVE ImageInv
  OBVIOUS
<1>1. /\ manifest = [parses |-> TRUE, row |-> <<>>] /\ DOMAIN files = {}
      /\ op = [s \in Processes |-> Firmware!NoOp] /\ overlapped = FALSE /\ cut = FALSE
  BY DEF Firmware!FwInit, Firmware!Whole
<1>2. \A s \in Processes : op[s] = Firmware!NoOp /\ op[s].pc = "idle"
  BY <1>1, NoOpTyped
<1>3. manifest \in [parses : BOOLEAN, row : GoodRows] /\ manifest.parses /\ manifest.row = <<>>
  BY <1>1, EmptyRows
<1>4. op \in [Processes -> Operation]
  BY <1>1, NoOpTyped
<1>5. RowInv
  BY <1>1, <1>2, <1>3, <1>4 DEF RowInv
<1>6. Firmware!Busy = {}
  BY <1>2 DEF Firmware!Busy
<1>7. Only /\ Clean
  BY <1>1, <1>3, <1>6, EmptyRows DEF Only, Clean
<1>8. \A s \in Processes : KeepsImages(s)
  BY <1>2 DEF KeepsImages
<1> QED
  BY <1>3, <1>5, <1>6, <1>7, <1>8, EmptyRows DEF ImageInv

LEMMA ImageStutter == ASSUME ImageInv, UNCHANGED firmwareVars PROVE ImageInv'
<1>1. RowInv'
  BY DEF ImageInv, RowInv, firmwareVars
<1>2. ~overlapped' => /\ Only' /\ Images(manifest'.row) \subseteq DOMAIN files'
                      /\ (\A s \in Processes : KeepsImages(s)')
  BY DEF ImageInv, Only, Firmware!Busy, KeepsImages, firmwareVars
<1>3. Firmware!Busy' = Firmware!Busy
  BY DEF Firmware!Busy, firmwareVars
<1>4. Clean' <=> Clean
  BY DEF Clean, firmwareVars
<1>5. \A s \in Processes : NoWaste(s) => NoWaste(s)'
  BY DEF NoWaste, Old, firmwareVars
<1>6. ~overlapped' /\ ~cut' => /\ \A s \in Firmware!Busy' : NoWaste(s)'
                               /\ Firmware!Busy' = {} => Clean'
  BY <1>3, <1>4, <1>5 DEF ImageInv, Firmware!Busy, firmwareVars
<1> QED
  BY <1>1, <1>2, <1>6 DEF ImageInv

LEMMA ProceedInv == ASSUME ImageInv, NEW s \in Processes, Firmware!Proceed(s) PROVE ImageInv'
<1>1. CASE Firmware!FlashImage(s)
  BY <1>1, IdleAgain DEF Firmware!FlashImage
<1> QED
  BY <1>1, AddInv, WriteImageInv, RemoveInv, TruncateInv, FillInv, TidyInv,
     ChooseFirmwareInv, CutShortInv DEF Firmware!Proceed

LEMMA ImageHolds == ToolSpec => []ImageInv
<1>1. ToolInit => ImageInv
  BY ImageInit DEF ToolInit
<1>2. ImageInv /\ [ToolNext]_toolVars => ImageInv'
  <2> SUFFICES ASSUME ImageInv, [ToolNext]_toolVars PROVE ImageInv'
    OBVIOUS
  <2>1. CASE UNCHANGED firmwareVars
    BY <2>1, ImageStutter
  <2>2. CASE FirmwareStep
    BY <2>2, LoadInv, ProceedInv DEF FirmwareStep
  <2> QED
    BY <2>1, <2>2 DEF ToolNext, CredentialStep, toolVars
<1> QED
  BY <1>1, <1>2, PTL DEF ToolSpec

(* The files stay what the tool can read and write: each image file is     *)
(* named by its content or torn, and every row the manifest parses to is   *)
(* one `firmware add` made.                                                *)
THEOREM FilesTyped == ToolSpec => []FilesTypeOK
<1>1. ImageInv => Firmware!FwTypeOK
  <2> SUFFICES ASSUME RowInv PROVE Firmware!FwTypeOK
    BY DEF ImageInv
  <2>1. GoodRow \subseteq Firmware!Row
    BY GoodRowIs
  <2>2. GoodRows \subseteq Firmware!Rows
    BY <2>1 DEF GoodRows, Firmware!Rows
  <2>3. manifest \in {Firmware!Unparsable} \cup {Firmware!Whole(rows) : rows \in Firmware!Rows}
    <3>1. CASE manifest.parses
      <4>1. /\ manifest = [parses |-> TRUE, row |-> manifest.row]
            /\ manifest.row \in Firmware!Rows
        BY <2>2, <3>1 DEF RowInv
      <4> QED
        BY <4>1 DEF Firmware!Whole
    <3> QED
      BY <3>1 DEF RowInv
  <2>4. ASSUME NEW s \in Processes
        PROVE  /\ op[s].pc \in {"idle", "loaded", "writeImage", "save", "fill", "tidy", "chosen"}
               /\ op[s].rows \in Firmware!Rows
               /\ op[s].name \in FwNames \cup {None}
               /\ {op[s].row, op[s].old} \subseteq Firmware!Row \cup {None}
    BY <2>1, <2>2, OperationTyped
  <2> QED
    BY <2>3, <2>4 DEF RowInv, Firmware!FwTypeOK
<1>2. ProfileInv => TypeOK
  BY DEF ProfileInv
<1> QED
  BY <1>1, <1>2, ImageHolds, ProfileHolds, PTL DEF FilesTypeOK

(* While runs do not overlap, the image of every row is there wherever     *)
(* runs were cut, and while none was cut either, nothing else is and each  *)
(* is whole (firmware.rs add, remove: "an orphaned file is waste, a        *)
(* missing one is a broken row").                                          *)
THEOREM RowsKeepImages == ToolSpec => []ImagesMatchRows
<1>1. ImageInv => ImagesMatchRows
  <2>1. {Firmware!ImagePath(n, manifest.row[n]) : n \in DOMAIN manifest.row}
            = Images(manifest.row)
    BY DEF Firmware!ImagePath, Images
  <2> QED
    BY <2>1 DEF ImageInv, Clean, ImagesMatchRows, Firmware!ImagesMatchRows
<1> QED
  BY <1>1, ImageHolds, PTL

(* Whatever ran meanwhile, the image a run flashes is the one whose load   *)
(* address and checkpoint range it took from the manifest, and that range  *)
(* is whole pages (firmware.rs:52-56, elf.rs read and storage).            *)
THEOREM FlashedIsDescribed == ToolSpec => []FlashedAsDescribed
<1>1. ImageInv => FlashedAsDescribed
  <2> SUFFICES ASSUME RowInv, NEW s \in Processes, op[s].pc = "chosen",
                      NEW row, row = op[s].row,
                      NEW there, there = Firmware!At(row.id), there \in Builds
               PROVE  /\ row.appStart = Firmware!Lowest(Elf[there].segments)
                      /\ row.storage # None =>
                          /\ row.storage = <<Elf[there].start, Elf[there].end>>
                          /\ row.storage[1] < row.storage[2]
                          /\ Firmware!Aligned(row.storage[1])
                          /\ Firmware!Aligned(row.storage[2])
    BY DEF ImageInv, FlashedAsDescribed, Firmware!FlashedAsDescribed, Firmware!ImagePath
  <2>1. row \in GoodRow
    BY OperationTyped
  <2>2. /\ row.id \in Builds /\ row = Firmware!RowOf(row.id)
        /\ Firmware!ReadElf(Elf[row.id]).ok
    BY <2>1, GoodRowIs
  <2>3. there = row.id
    BY FirmwareAssumption DEF RowInv, Firmware!At
  <2> DEFINE elf == Elf[there]
  <2>4. /\ Firmware!ReadElf(elf).ok
        /\ row.appStart = Firmware!ReadElf(elf).appStart
        /\ row.storage = Firmware!ReadElf(elf).storage
    BY <2>2, <2>3 DEF Firmware!RowOf
  <2>5. /\ elf.start \in Nat \cup {None} /\ elf.end \in Nat \cup {None}
    BY FirmwareAssumption
  <2> HIDE DEF elf
  <2>6. /\ elf.segments # {} /\ Firmware!Storage(elf).ok
        /\ row.appStart = Firmware!Lowest(elf.segments)
        /\ row.storage = Firmware!Storage(elf).range
    BY <2>4 DEF Firmware!ReadElf
  <2>7. ASSUME row.storage # None
        PROVE  /\ row.storage = <<elf.start, elf.end>>
               /\ elf.start \in Nat /\ elf.end \in Nat /\ ~ (elf.end <= elf.start)
               /\ Firmware!Aligned(elf.start) /\ Firmware!Aligned(elf.end)
    <3>1. elf.start # None \/ elf.end # None
      BY <2>6, <2>7 DEF Firmware!Storage
    <3>2. elf.start # None /\ elf.end # None
      BY <2>6, <3>1 DEF Firmware!Storage
    <3> QED
      BY <2>5, <2>6, <3>2 DEF Firmware!Storage
  <2>8. ASSUME row.storage # None
        PROVE  row.storage[1] = elf.start /\ row.storage[2] = elf.end
    BY <2>7, <2>8
  <2>9. row.storage # None => row.storage[1] < row.storage[2]
    BY <2>7, <2>8
  <2>10. row.storage # None =>
            Firmware!Aligned(row.storage[1]) /\ Firmware!Aligned(row.storage[2])
    BY <2>7, <2>8
  <2>11. elf = Elf[there]
    BY DEF elf
  <2> QED
    BY <2>6, <2>7, <2>9, <2>10, <2>11
<1> QED
  BY <1>1, ImageHolds, PTL

-------------------------------------------------------------------------------
(***************************************************************************)
(* Where the counter's pages are (FlashLayout).                            *)
(***************************************************************************)

(* The layout a board's facts derive is the one the linker asserts: two    *)
(* whole pages at the top, right above the application.                    *)
LEMMA Derived ==
    ASSUME NEW board, board.appStart \in Nat, board.flashTop \in Nat, Firmware!Derive(board).ok
    PROVE  LET s == Firmware!Script(board) IN
           /\ Firmware!ScriptAsserts(board)
           /\ s.start \in Nat /\ s.end = s.start + 8192 /\ s.end = board.flashTop
           /\ s.start % 4096 = 0 /\ s.end % 4096 = 0
           /\ s.flash.origin \in Nat /\ s.flash.origin + s.flash.length = s.start
<1> DEFINE a == board.appStart  t == board.flashTop  b == t - 8192
<1>1. /\ a \in Nat /\ t \in Nat /\ a % 4096 = 0 /\ t % 4096 = 0 /\ b >= 0 /\ b > a
  BY DEF Firmware!Derive, Firmware!Aligned, Firmware!PageSize, Firmware!StorageLen
<1>2. Firmware!Script(board) = [flash |-> [origin |-> a, length |-> b - a],
                       storage |-> [origin |-> b, length |-> 8192],
                       start |-> b, end |-> b + 8192]
  BY DEF Firmware!Script, Firmware!Derive, Firmware!PageSize, Firmware!StorageLen
<1>3. b \in Nat /\ b % 4096 = 0 /\ b + 8192 = t /\ a + (b - a) = b /\ 8192 % 4096 = 0
  BY SMT, <1>1
<1> HIDE DEF a, b, t
<1>4. Firmware!ScriptAsserts(board)
  BY <1>2, <1>3 DEF Firmware!ScriptAsserts, Firmware!Aligned, Firmware!PageSize, t
<1> QED BY <1>1, <1>2, <1>3, <1>4 DEF t

(* An interval of two pages is the one of the first and the one of the     *)
(* second.                                                                 *)
LEMMA Halves ==
    ASSUME NEW b \in Nat
    PROVE  (b .. b + 4095) \cup (b + 4096 .. b + 4096 + 4095) = b .. b + 8191
<1>1. ASSUME NEW x \in b .. b + 8191
      PROVE  x \in b .. b + 4095 \/ x \in b + 4096 .. b + 4096 + 4095
  BY SMT, <1>1
<1>2. ASSUME NEW x \in b .. b + 4095
      PROVE  x \in b .. b + 8191
  BY SMT, <1>2
<1>3. ASSUME NEW x \in b + 4096 .. b + 4096 + 4095
      PROVE  x \in b .. b + 8191
  BY SMT, <1>3
<1> DEFINE all == b .. b + 8191  one == b .. b + 4095  two == b + 4096 .. b + 4096 + 4095
<1>4. (\A x \in all : x \in one \/ x \in two) /\ one \subseteq all /\ two \subseteq all
  BY <1>1, <1>2, <1>3
<1> HIDE DEF all, one, two
<1>5. one \cup two = all
  BY Zenon, <1>4
<1> QED BY <1>5 DEF all, one, two

(* A page runs from its first byte to the 4095th after it.                 *)
LEMMA PageBytes ==
    ASSUME NEW b \in Nat
    PROVE  Firmware!PageFrom(b) = b .. b + 4095
<1>1. b + Firmware!PageSize - 1 = b + 4095
  BY SMT DEF Firmware!PageSize
<1> QED BY <1>1 DEF Firmware!PageFrom

(* Page starts within a range of two pages: its first and its second.      *)
StartsIn(start, end) == {n \in 0 .. end - start : start + n * 4096 < end}

LEMMA TwoStarts ==
    ASSUME NEW start \in Nat, NEW end \in Nat, end = start + 8192
    PROVE  /\ 0 \in StartsIn(start, end) /\ 1 \in StartsIn(start, end)
           /\ StartsIn(start, end) \subseteq {0, 1}
<1> DEFINE starts == StartsIn(start, end)
<1>1. 0 \in starts /\ 1 \in starts
  BY SMT DEF StartsIn
<1>2. ASSUME NEW n \in starts PROVE n = 0 \/ n = 1
  <2>1. n \in Int /\ 0 <= n /\ start + n * 4096 < start + 8192
    BY DEF StartsIn
  <2> QED BY SMT, <2>1
<1> HIDE DEF starts
<1>3. starts \subseteq {0, 1}
  BY <1>2
<1> QED
  BY <1>1, <1>3 DEF starts

(* Two pages are erased of a range of two, and they are the range.         *)
LEMMA TwoPages ==
    ASSUME NEW start \in Nat, start % 4096 = 0
    PROVE  Firmware!ErasedBytes(start, start + 8192) = start .. start + 8191
<1> DEFINE second == start + 4096
           end == start + 8192
           Pages == Firmware!ErasedPages(start, end)
           Erased == Firmware!ErasedBytes(start, end)
           Index == StartsIn(start, end)
<1>1. /\ end % 4096 = 0 /\ start < end /\ end - start = 8192
      /\ start + 0 * 4096 = start /\ start + 1 * 4096 = second
      /\ second \in Nat
  BY SMT
<1>2. Firmware!Aligned(start) /\ Firmware!Aligned(end)
  BY <1>1 DEF Firmware!Aligned, Firmware!PageSize
<1>3. Pages = {start + n * 4096 : n \in Index}
  <2> HIDE DEF end
  <2> QED BY <1>1, <1>2 DEF Firmware!ErasedPages, Firmware!PageSize, StartsIn
<1>4. 0 \in Index /\ 1 \in Index /\ Index \subseteq {0, 1}
  <2>1. end \in Nat /\ end = start + 8192
    BY <1>1
  <2> HIDE DEF end
  <2> QED BY <2>1, TwoStarts
<1>5. Pages = {start, second}
  <2> HIDE DEF Pages, Index, second
  <2> QED BY <1>1, <1>3, <1>4
<1>6. Erased = Firmware!PageFrom(start) \cup Firmware!PageFrom(second)
  <2>1. Erased = UNION {Firmware!PageFrom(page) : page \in Pages}
    BY DEF Firmware!ErasedBytes
  <2> HIDE DEF Pages, Erased, second
  <2> QED BY <1>5, <2>1
<1> DEFINE one == start .. start + 4095
           two == second .. second + 4095
           all == start .. start + 8191
<1>7. Firmware!PageFrom(start) = one /\ Firmware!PageFrom(second) = two
  BY <1>1, PageBytes
<1>8. one \cup two = all
  BY Halves
<1>9. Erased = all
  <2> HIDE DEF Erased, second, one, two, all
  <2> QED BY <1>6, <1>7, <1>8
<1> QED BY <1>9

LEMMA SlotWithin ==
    ASSUME NEW b \in Nat, NEW s \in 0 .. 2047
    PROVE  b + s * 4 .. b + s * 4 + 3 \subseteq b .. b + 8191
  BY SMT

(* The sensor's slots are the words of the range.                          *)
SlotWords(elf) ==
    UNION {Firmware!SlotAddr(elf, s) .. Firmware!SlotAddr(elf, s) + 3 :
               s \in 0 .. Firmware!TotalSlots - 1}

LEMMA SlotsFill ==
    ASSUME NEW elf, elf.start \in Nat
    PROVE  SlotWords(elf)
             = elf.start .. elf.start + 8191
<1> DEFINE b == elf.start
           Slots == 0 .. Firmware!TotalSlots - 1
           Word(s) == Firmware!SlotAddr(elf, s) .. Firmware!SlotAddr(elf, s) + 3
           All == b .. b + 8191
<1>0. Firmware!TotalSlots = 2048 /\ Firmware!TotalSlots - 1 = 2047
  BY SMT DEF Firmware!TotalSlots, Firmware!WordsPerPage, Firmware!PageSize
<1>1. \A s \in Slots : Word(s) \subseteq All
  <2> SUFFICES ASSUME NEW s \in Slots PROVE Word(s) \subseteq All
    OBVIOUS
  <2>1. Firmware!SlotAddr(elf, s) = b + s * 4 /\ s \in 0 .. 2047 /\ b \in Nat
    BY <1>0 DEF Firmware!SlotAddr
  <2> HIDE DEF b
  <2> QED BY <2>1, SlotWithin
<1>2. \A x \in All : \E s \in Slots : x \in Word(s)
  <2> SUFFICES ASSUME NEW x \in All PROVE \E s \in Slots : x \in Word(s)
    OBVIOUS
  <2>1. b \in Nat /\ x \in b .. b + 8191
    OBVIOUS
  <2> DEFINE n == (x - b) \div 4
  <2> HIDE DEF b
  <2>2. n \in 0 .. 2047 /\ x \in b + n * 4 .. b + n * 4 + 3
    BY SMT, <2>1
  <2>3. Firmware!SlotAddr(elf, n) = b + n * 4
    BY DEF Firmware!SlotAddr, b
  <2> HIDE DEF n
  <2>4. n \in Slots /\ x \in Word(n)
    BY <1>0, <2>2, <2>3
  <2> HIDE DEF Slots, Word
  <2> QED BY <2>4
<1>3. UNION {Word(s) : s \in Slots} = All
  <2> HIDE DEF Word, All, Slots
  <2> QED BY Zenon, <1>1, <1>2
<1> QED BY <1>3 DEF SlotWords

(* For every board whose facts the build script accepts and every image    *)
(* linked for it: the tool reads the counter's range out of the image as   *)
(* the build put it there, the sensor's own assertion on it holds, and     *)
(* erasing it takes every word of every slot and no byte of the image      *)
(* (build.rs derive and render, elf.rs storage, chip.rs erase_storage,     *)
(* seq_counter.rs load).                                                   *)
THEOREM CounterErasedWhole ==
    ASSUME NEW board, board.appStart \in Nat, board.flashTop \in Nat, Firmware!Derive(board).ok,
           NEW elf, Firmware!Linked(elf, Firmware!Script(board)), None \notin Int
    PROVE  /\ Firmware!ScriptAsserts(board)
           /\ Firmware!ReadElf(elf).ok
           /\ Firmware!TwoPageDesign(elf)
           /\ Firmware!ErasedFor(elf)
                = SlotWords(elf)
           /\ Firmware!ErasedFor(elf) = Firmware!ByteRange(elf, "A") \cup Firmware!ByteRange(elf, "B")
           /\ Firmware!ErasedFor(elf) \cap elf.segments = {}
<1> DEFINE b == elf.start  e == elf.end
<1>1. /\ Firmware!ScriptAsserts(board)
      /\ b \in Nat /\ e = b + 8192
      /\ b % 4096 = 0 /\ e % 4096 = 0
      /\ elf.segments # {}
      /\ \A a \in elf.segments : a < b
  <2> DEFINE s == Firmware!Script(board)
  <2>1. /\ Firmware!ScriptAsserts(board)
        /\ s.start \in Nat /\ s.end = s.start + 8192
        /\ s.start % 4096 = 0 /\ s.end % 4096 = 0
        /\ s.flash.origin + s.flash.length = s.start
    BY Derived
  <2>2. b = s.start /\ e = s.end /\ elf.segments # {}
        /\ \A a \in elf.segments : a < s.flash.origin + s.flash.length
    BY DEF Firmware!Linked
  <2> HIDE DEF s, b, e
  <2> QED BY <2>1, <2>2
<1>2. b \in Int /\ e \in Int /\ ~ (e <= b)
  BY <1>1
<1>3. Firmware!Storage(elf) = [ok |-> TRUE, range |-> <<b, e>>]
  <2>1. b # None /\ e # None
    BY <1>2
  <2>2. Firmware!Aligned(b) /\ Firmware!Aligned(e)
    BY <1>1 DEF Firmware!Aligned, Firmware!PageSize
  <2> QED BY <1>2, <2>1, <2>2 DEF Firmware!Storage
<1>4. Firmware!ReadElf(elf).ok /\ Firmware!ReadElf(elf).storage = <<b, e>>
  <2> DEFINE kept == Firmware!Storage(elf)
  <2>1. /\ Firmware!ReadElf(elf).ok = (elf.segments # {} /\ kept.ok)
        /\ Firmware!ReadElf(elf).storage = kept.range
    BY DEF Firmware!ReadElf
  <2>2. kept.ok = TRUE /\ kept.range = <<b, e>>
    BY <1>3
  <2>3. elf.segments # {}
    BY <1>1
  <2> HIDE DEF b, e, kept
  <2> QED BY <2>1, <2>2, <2>3
<1>5. Firmware!TwoPageDesign(elf)
  BY SMT, <1>1 DEF Firmware!TwoPageDesign, Firmware!TotalSlots, Firmware!WordsPerPage,
                   Firmware!PageSize
<1> DEFINE All == b .. b + 8191
<1>6. Firmware!ErasedFor(elf) = All
  <2> HIDE DEF b, e
  <2>1. <<b, e>>[1] = b /\ <<b, e>>[2] = b + 8192
    BY <1>1
  <2>2. Firmware!ErasedFor(elf) = Firmware!ErasedBytes(b, b + 8192)
    BY <1>4, <2>1 DEF Firmware!ErasedFor
  <2>3. Firmware!ErasedBytes(b, b + 8192) = b .. b + 8191
    BY <1>1, TwoPages
  <2> QED BY <2>2, <2>3
<1>7. Firmware!ByteRange(elf, "A") \cup Firmware!ByteRange(elf, "B") = All
  <2> DEFINE one == b .. b + 4095  two == b + 4096 .. b + 4096 + 4095
  <2>1. Firmware!ByteRange(elf, "A") = one
    <3>1. Firmware!FirstSlot("A") = 0
      BY DEF Firmware!FirstSlot
    <3>2. b + 0 * 4 = b
      BY <1>1
    <3>3. Firmware!ByteRange(elf, "A") = Firmware!PageFrom(b)
      BY <3>1, <3>2 DEF Firmware!ByteRange, Firmware!SlotAddr
    <3> QED BY <1>1, <3>3, PageBytes
  <2>2. Firmware!ByteRange(elf, "B") = two
    <3>1. Firmware!FirstSlot("B") = 1024
      BY SMT DEF Firmware!FirstSlot, Firmware!WordsPerPage, Firmware!PageSize
    <3>2. b + 1024 * 4 = b + 4096 /\ b + 4096 \in Nat
      BY <1>1
    <3>3. Firmware!ByteRange(elf, "B") = Firmware!PageFrom(b + 4096)
      BY <3>1, <3>2 DEF Firmware!ByteRange, Firmware!SlotAddr
    <3> QED BY <3>2, <3>3, PageBytes
  <2>3. one \cup two = All
    BY <1>1, Halves
  <2> HIDE DEF one, two, All
  <2> QED BY Zenon, <2>1, <2>2, <2>3
<1>8. All \cap elf.segments = {}
  BY <1>1
<1>9. SlotWords(elf) = All
  BY <1>1, SlotsFill
<1> HIDE DEF All
<1> QED BY <1>1, <1>4, <1>5, <1>6, <1>7, <1>8, <1>9

(* A build that gets as far as select_board's one board derives a layout,  *)
(* whichever features it was asked for, and keeps the counter in the last  *)
(* two pages of the 1 MB part (build.rs BOARDS).                           *)
THEOREM BoardsDerive ==
    \A features \in SUBSET DOMAIN Firmware!Boards :
    \A board \in Firmware!SelectBoard(features) :
        Firmware!Derive(board).ok /\ Firmware!Script(board).start = 1040384
<1> SUFFICES ASSUME NEW features \in SUBSET DOMAIN Firmware!Boards,
                    NEW board \in Firmware!SelectBoard(features)
             PROVE  Firmware!Derive(board).ok /\ Firmware!Script(board).start = 1040384
  OBVIOUS
<1>1. PICK b \in DOMAIN Firmware!Boards : board = Firmware!Boards[b]
  BY DEF Firmware!SelectBoard
<1>2. board = [appStart |-> 0, flashTop |-> 1048576]
  BY <1>1 DEF Firmware!Boards, Firmware!Bare1MB
<1>3. 0 % 4096 = 0 /\ 1048576 % 4096 = 0 /\ 1048576 - 8192 = 1040384
  BY SMT
<1> QED BY <1>2, <1>3 DEF Firmware!Derive, Firmware!Script, Firmware!Aligned,
                          Firmware!PageSize, Firmware!StorageLen
===============================================================================
