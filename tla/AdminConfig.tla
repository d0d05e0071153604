---------------------------- MODULE AdminConfig -----------------------------
(***************************************************************************)
(* The settings of tunnel.Base: Cfg and Auth in memory, and the three files *)
(* behind them: the main config, auth.json and the runtime sidecar of the   *)
(* UI cards.  PUT /v1/admin/config and PUT /v1/admin/cards change the memory*)
(* under CfgMu, copy it, unlock and only then save the copy, so two requests*)
(* may save in any order and at the same time.  os.WriteFile truncates the  *)
(* file and then writes it; the process may die in between.  A restart reads*)
(* the files back (LoadConfig with its overlay, LoadAuthConfig, NewBase).   *)
(***************************************************************************)
EXTENDS Integers, FiniteSets

CONSTANTS
    AdminReq,     \* admin requests
    Setting,      \* values of the settings PUT config may change
    AuthSetting,  \* values of the auth settings, "public" included
    Cards,        \* card maps, EmptyCards (no card) included
    EmptyCards,
    MaxPuts,      \* bound on the requests
    MaxCrashes    \* bound on restarts

ASSUME AdminAssumption ==
    /\ "public" \in AuthSetting /\ EmptyCards \in Cards
    /\ MaxPuts \in Nat /\ MaxCrashes \in Nat

SettingsFile == {"config", "auth", "runtime"}

\* A file: absent, cut off (truncated, or two writes on top of each other), or
\* what json.Marshal made of the values it was given.  omitempty leaves an
\* empty card map out of both files that hold one.
Absent == [state |-> "absent"]
CutOff == [state |-> "cut"]
Doc(setting, auth, cards) ==
    [state |-> "whole", setting |-> setting, auth |-> auth, cards |-> cards]

AdminIdle == [pc |-> "idle"]

VARIABLES
    mem,       \* b.Cfg (the setting and the cards) and b.Auth
    authFile,  \* b.Auth.ConfigFile # ""
    disk,      \* the files
    admins,    \* the requests
    serving,   \* the process runs
    puts, crashes,
    unsure     \* history: files a failed, cut off or overlapping save left behind

adminVars == <<mem, authFile, disk, admins, serving, puts, crashes, unsure>>

\* A broker.json without cards, and neither of the other files.
AdminInit ==
    \E s \in Setting :
      /\ mem = [setting |-> s, auth |-> "public", cards |-> EmptyCards]
      /\ authFile = TRUE
      /\ disk = [f \in SettingsFile |-> IF f = "config" THEN Doc(s, "public", EmptyCards)
                                ELSE Absent]
      /\ admins = [r \in AdminReq |-> AdminIdle]
      /\ serving = TRUE
      /\ puts = 0 /\ crashes = 0 /\ unsure = {}

-----------------------------------------------------------------------------
(* Reading the files back.                                                 *)

Whole(f) == disk[f].state = "whole"

\* LoadRuntime and ApplyRuntime: a sidecar that is missing, cut off or without
\* cards (r.Cards == nil) leaves the cards of the main config.
Overlay == IF Whole("runtime") /\ disk["runtime"].cards # EmptyCards
           THEN disk["runtime"].cards ELSE disk["config"].cards

\* "open" is the legacy name of "public", for IsPublic and on reading.
Canonical(mode) == IF mode = "open" THEN "public" ELSE mode

\* LoadAuthConfig as NewBase uses it: without a readable auth.json the mode is
\* "public".
LoadedAuth == IF Whole("auth") THEN Canonical(disk["auth"].auth) ELSE "public"

\* LoadConfig, of a main config that parses.
Loaded == [setting |-> disk["config"].setting, auth |-> LoadedAuth, cards |-> Overlay]

-----------------------------------------------------------------------------
(* The PUT handlers.                                                       *)

Busy == {r \in AdminReq : admins[r].pc # "idle"}

\* The files a request has still to save, its current one included.
ToSave(r) == IF admins[r].pc = "idle" THEN {} ELSE {admins[r].file} \cup admins[r].more

\* The request begins to save file f of its copy (HandleAdminConfig saves the
\* config, then auth.json if that changed; HandleAdminCards the sidecar).
Saving(copy, f, more) == [pc |-> "open", copy |-> copy, file |-> f, more |-> more]

\* A request that saves F alone settles those files; any overlap does not.
Settled(F) == IF Busy = {} THEN unsure \ F
              ELSE unsure \cup F \cup UNION {ToSave(r) : r \in Busy}

\* PUT config under CfgMu: the setting, and the auth settings when given.
PutConfig(r, s, a, authChanged) ==
    LET new == [mem EXCEPT !.setting = s, !.auth = IF authChanged THEN a ELSE @]
        more == IF authChanged /\ authFile THEN {"auth"} ELSE {}
    IN
    /\ serving /\ admins[r] = AdminIdle /\ puts < MaxPuts
    /\ mem' = new
    /\ admins' = [admins EXCEPT ![r] = Saving(new, "config", more)]
    /\ unsure' = Settled({"config"} \cup more)
    /\ puts' = puts + 1
    /\ UNCHANGED <<authFile, disk, serving, crashes>>

\* PUT cards under CfgMu.
PutCards(r, c) ==
    LET new == [mem EXCEPT !.cards = c] IN
    /\ serving /\ admins[r] = AdminIdle /\ puts < MaxPuts
    /\ mem' = new
    /\ admins' = [admins EXCEPT ![r] = Saving(new, "runtime", {})]
    /\ unsure' = Settled({"runtime"})
    /\ puts' = puts + 1
    /\ UNCHANGED <<authFile, disk, serving, crashes>>

\* Mutant: the handler answers after the first file.
MutNextFile(r) == admins' = [admins EXCEPT ![r] = AdminIdle]

\* After a save, ok or not, the next file; after the last the answer.
NextFile(r) ==
    admins' = [admins EXCEPT ![r] =
                 IF @.more = {} THEN AdminIdle
                 ELSE Saving(@.copy, CHOOSE f \in @.more : TRUE, {})]

\* os.WriteFile opens the file with O_TRUNC.
Truncate(r) ==
    /\ admins[r].pc = "open"
    /\ disk' = [disk EXCEPT ![admins[r].file] = CutOff]
    /\ admins' = [admins EXCEPT ![r].pc = "write"]
    /\ UNCHANGED <<mem, authFile, serving, puts, crashes, unsure>>

\* What the request writes: its copy, made under the lock.
FileDoc(r) == Doc(admins[r].copy.setting, admins[r].copy.auth, admins[r].copy.cards)

\* It writes its copy from offset 0: on top of what another request wrote
\* since it truncated, the longer of the two may stick out.
WriteDoc(r) ==
    LET f == admins[r].file IN
    /\ admins[r].pc = "write"
    /\ \E d \in {FileDoc(r)} \cup (IF Whole(f) THEN {CutOff} ELSE {}) :
         disk' = [disk EXCEPT ![f] = d]
    /\ NextFile(r)
    /\ UNCHANGED <<mem, authFile, serving, puts, crashes, unsure>>

\* The save fails before or after it truncated the file; PUT config logs that
\* and still answers ok, PUT cards answers 500 with the new cards in memory.
SaveFails(r) ==
    /\ admins[r].pc # "idle"
    /\ unsure' = unsure \cup {admins[r].file}
    /\ NextFile(r)
    /\ UNCHANGED <<mem, authFile, disk, serving, puts, crashes>>

-----------------------------------------------------------------------------
\* The process dies; the saves it had before it stay undone or half done.
Crash ==
    /\ serving /\ crashes < MaxCrashes
    /\ serving' = FALSE
    /\ admins' = [r \in AdminReq |-> AdminIdle]
    /\ unsure' = unsure \cup UNION {ToSave(r) : r \in AdminReq}
    /\ crashes' = crashes + 1
    /\ UNCHANGED <<mem, authFile, disk, puts>>

\* The process starts again; a main config that does not parse keeps it down.
\* NewBase saves the config it has just read when the emblem file is missing.
Start(emblemGone) ==
    /\ ~serving /\ Whole("config")
    /\ serving' = TRUE
    /\ mem' = Loaded
    /\ authFile' = (disk["auth"].state # "cut")
    /\ disk' = IF emblemGone
               THEN [disk EXCEPT !["config"] = Doc(@.setting, @.auth, Overlay)] ELSE disk
    /\ unsure' = {}
    /\ UNCHANGED <<admins, puts, crashes>>

AdminNext ==
    \/ \E r \in AdminReq, s \in Setting, a \in AuthSetting, b \in BOOLEAN :
          PutConfig(r, s, a, b)
    \/ \E r \in AdminReq, c \in Cards : PutCards(r, c)
    \/ \E r \in AdminReq : Truncate(r) \/ WriteDoc(r) \/ SaveFails(r)
    \/ Crash
    \/ \E gone \in BOOLEAN : Start(gone)

AdminSpec == AdminInit /\ [][AdminNext]_adminVars

-----------------------------------------------------------------------------
(* Properties.                                                             *)

AtRest == serving /\ Busy = {}

\* What a restart would read is what the server runs with, for every file
\* whose last save ran alone and succeeded: so a single undisturbed PUT mends
\* a file that failed, overlapping or interrupted saves had spoilt (auth.json
\* only if it could be parsed at the start; the mode up to its legacy name).
\* Clearing the cards is left out.
RestartRestores ==
    AtRest =>
        /\ "config" \notin unsure => Whole("config") /\ Loaded.setting = mem.setting
        /\ "auth" \notin unsure /\ authFile => LoadedAuth = Canonical(mem.auth)
        /\ unsure = {} /\ mem.cards # EmptyCards => Loaded.cards = mem.cards

\* "cards / api_features come from runtime even when broker.json on a read-only
\* volume has stale or missing values": whatever the cards were set to last.
CardsComeFromRuntime ==
    AtRest /\ unsure = {} => Loaded.cards = mem.cards
=============================================================================
