-------------------------------- MODULE Cutover --------------------------------
(***************************************************************************)
(* The ingress cutover transaction                                           *)
(* (scripts/atlas_ingress_cutover_transaction.py): --prepare stages the new  *)
(* code and environment, --execute qualifies the host, captures a fresh      *)
(* backup (atlas/data_protection.py) and then stops the units, swaps code    *)
(* and environment, starts the units and verifies.  Every failed step and    *)
(* every signal ends in a rollback that goes on after its own failures.      *)
(*                                                                           *)
(* The host is a record that all operators share.  A step may fail before    *)
(* or after it took effect, a signal may come and the process may be killed  *)
(* anywhere; what is qualified without changing anything is one step.        *)
(* systemd is external: the unit files under deploy/systemd say what it does.*)
(***************************************************************************)
EXTENDS Integers, Sequences

CONSTANTS
    Operators,  \* the processes that run the script
    MaxFaults   \* bound: failing steps, signals and kills

Units == {"socket", "ingress", "web", "mcp"}
Versions == {"old", "new"}
Outcomes == {"none", "finished", "rolled back", "incident", "interrupted", "killed"}

VARIABLES
    host,       \* [code, env: what each path holds, run: what each unit runs]
    partial,    \* the fresh backup is being written
    slot,       \* the fresh backup has been published
    pc,         \* per operator: what it does
    at,         \* per operator: its step of the switch or of the rollback
    errors,     \* per operator: its rollback has recorded an error
    attempts,   \* how often a switch was begun (history)
    outcome,    \* how the last switch ended (history)
    faults      \* bounds what goes wrong

vars == <<host, partial, slot, pc, at, errors, attempts, outcome, faults>>
backup == <<partial, slot>>
history == <<attempts, outcome>>

-----------------------------------------------------------------------------
(* The host: paths that hold a version, nothing, or a half-written copy,     *)
(* and units that run what they found when they were started.                *)

\* What a unit that is started now runs: the web and the ingress read the code,
\* the MCP service the code and the environment.
Image(h, u) ==
    CASE u = "socket" -> "on"
      [] u = "mcp" -> IF h.code.live = h.env.live THEN h.code.live ELSE "mixed"
      [] OTHER -> h.code.live

\* The ingress requires the MCP service: it is stopped with it, and starts it.
Stopped(h, u) ==
    [h EXCEPT !.run = [v \in Units |->
        IF v = u \/ (u = "mcp" /\ v = "ingress") THEN "off" ELSE h.run[v]]]
Started(h, u) ==
    [h EXCEPT !.run = [v \in Units |->
        IF h.run[v] = "off" /\ (v = u \/ (u = "ingress" /\ v = "mcp"))
        THEN Image(h, v) ELSE h.run[v]]]
Startable(h, u) ==
    /\ u # "socket" => h.code.live \in Versions
    /\ u \in {"mcp", "ingress"} => h.env.live \in Versions

Moved(paths, from, to) == [paths EXCEPT ![to] = paths[from], ![from] = "none"]

\* restore_code in its two renames, restore_env.
SetAside(h) ==
    IF h.code.old # "none" /\ h.code.live # "none"
    THEN [h EXCEPT !.code = Moved(h.code, "live", "failed")] ELSE h
PutBack(h) ==
    IF h.code.old # "none"
    THEN [h EXCEPT !.code = Moved(h.code, "old", "live")] ELSE h
RestoredEnv(h) ==
    IF h.env.old # "none"
    THEN [h EXCEPT !.env = Moved(h.env, "old", "live")]
    ELSE [h EXCEPT !.env.live = "old"]

\* verify looks at the files and at the units that are active, not at what
\* the processes were started from.
Verified(h, version) ==
    /\ h.code.live = version /\ h.env.live = version
    /\ \A u \in Units : h.run[u] # "off"

-----------------------------------------------------------------------------
(* The steps of the switch and of the rollback.                              *)

Forward == <<
    <<"stop", "socket">>, <<"stop", "ingress">>, <<"stop", "web">>, <<"stop", "mcp">>,
    <<"code", "live", "old">>, <<"code", "stage", "live">>,
    <<"env", "live", "old">>, <<"env", "stage", "live">>,
    <<"start", "mcp">>, <<"start", "web">>, <<"reset">>,
    <<"start", "socket">>, <<"start", "ingress">>, <<"verify", "new">> >>
Back == <<
    <<"stop", "socket">>, <<"stop", "ingress">>, <<"stop", "web">>, <<"stop", "mcp">>,
    <<"set aside">>, <<"put back">>, <<"restore env">>,
    <<"start", "mcp">>, <<"start", "web">>, <<"reset">>,
    <<"start", "socket">>, <<"start", "ingress">>, <<"verify", "old">> >>

Works(h, s) ==
    CASE s[1] = "start" -> Startable(h, s[2])
      [] s[1] = "code" -> h.code[s[2]] # "none" /\ h.code[s[3]] = "none"
      [] s[1] = "env" -> h.env[s[2]] # "none"
      [] s[1] = "set aside" -> SetAside(h) = h \/ h.code.failed = "none"
      [] s[1] = "put back" -> PutBack(h).code.live = "old"
      [] s[1] = "verify" -> Verified(h, s[2])
      [] OTHER -> TRUE

After(h, s) ==
    CASE s[1] = "stop" -> Stopped(h, s[2])
      [] s[1] = "start" -> Started(h, s[2])
      [] s[1] = "code" -> [h EXCEPT !.code = Moved(h.code, s[2], s[3])]
      [] s[1] = "env" -> [h EXCEPT !.env = Moved(h.env, s[2], s[3])]
      [] s[1] = "set aside" -> SetAside(h)
      [] s[1] = "put back" -> PutBack(h)
      [] s[1] = "restore env" -> RestoredEnv(h)
      [] OTHER -> h

\* What a failing step leaves: nothing done, all of it, or a torn copy of the
\* environment where no renamed one is there to be moved back.
Failing(h, s) ==
    {h} \cup (IF Works(h, s) THEN {After(h, s)} ELSE {})
        \cup (IF s[1] = "restore env" /\ h.env.old = "none"
              THEN {[h EXCEPT !.env.live = "half"]} ELSE {})

Everything(version) ==
    /\ host.code.live = version /\ host.env.live = version
    /\ host.run = [socket |-> "on", ingress |-> version,
                   web |-> version, mcp |-> version]

-----------------------------------------------------------------------------
Goto(p, where) == pc' = [pc EXCEPT ![p] = where]
Faulty == faults < MaxFaults /\ faults' = faults + 1

Init ==
    /\ host = [code |-> [live |-> "old", stage |-> "none", old |-> "none",
                         failed |-> "none"],
               env |-> [live |-> "old", stage |-> "none", old |-> "none"],
               run |-> [socket |-> "on", ingress |-> "old", web |-> "old",
                        mcp |-> "old"]]
    /\ partial = FALSE /\ slot = FALSE
    /\ pc = [p \in Operators |-> "idle"]
    /\ at = [p \in Operators |-> 1]
    /\ errors = [p \in Operators |-> FALSE]
    /\ attempts = 0 /\ outcome = "none" /\ faults = 0

\* --prepare: nothing may be staged, and the environment is the original one.
Prepare(p) ==
    /\ pc[p] = "idle"
    /\ host.code.stage = "none" /\ host.env.stage = "none" /\ host.env.live = "old"
    /\ Goto(p, "copy")
    /\ UNCHANGED <<host, backup, at, errors, history, faults>>

\* copytree creates the directory or fails, then fills it or leaves it half full.
CopyStage(p) ==
    /\ pc[p] = "copy"
    /\ IF host.code.stage = "none"
       THEN host' = [host EXCEPT !.code.stage = "half"] /\ Goto(p, "fill")
       ELSE UNCHANGED host /\ Goto(p, "idle")
    /\ UNCHANGED <<backup, at, errors, history, faults>>
FillStage(p) ==
    /\ pc[p] = "fill"
    /\ \/ host' = [host EXCEPT !.code.stage = "new"] /\ Goto(p, "stage env")
          /\ UNCHANGED faults
       \/ Faulty /\ UNCHANGED host /\ Goto(p, "idle")
    /\ UNCHANGED <<backup, at, errors, history>>

\* The staged environment is created exclusively, from the live one.
StageEnv(p) ==
    /\ pc[p] = "stage env"
    /\ Goto(p, "idle")
    /\ \/ host.env.stage = "none" /\ host.env.live \in Versions
          /\ host' = [host EXCEPT !.env.stage = "new"] /\ UNCHANGED faults
       \/ (host.env.stage # "none" \/ host.env.live \notin Versions)
          /\ UNCHANGED <<host, faults>>
       \/ host.env.stage = "none" /\ Faulty
          /\ host' = [host EXCEPT !.env.stage = "half"]
    /\ UNCHANGED <<backup, at, errors, history>>

\* preflight: the host is the qualified one and no rollback path is occupied.
Qualified(h) ==
    /\ h.code = [live |-> "old", stage |-> "new", old |-> "none", failed |-> "none"]
    /\ h.env = [live |-> "old", stage |-> "new", old |-> "none"]
    /\ \A u \in Units : h.run[u] # "off"
Preflight(p) ==
    /\ pc[p] = "idle" /\ Qualified(host)
    /\ Goto(p, "slot")
    /\ UNCHANGED <<host, backup, at, errors, history, faults>>

\* capture_fresh_backup and backup_data_root: the slot is read, the partial
\* directory made exclusively and renamed into the slot, which must be free.
CheckSlot(p) ==
    /\ pc[p] = "slot"
    /\ Goto(p, IF slot \/ partial THEN "idle" ELSE "partial")
    /\ UNCHANGED <<host, backup, at, errors, history, faults>>
MakePartial(p) ==
    /\ pc[p] = "partial"
    /\ partial' = TRUE
    /\ Goto(p, IF partial THEN "idle" ELSE "publish")
    /\ UNCHANGED <<host, slot, at, errors, history, faults>>
AbandonPartial(p) ==
    /\ pc[p] = "publish" /\ Faulty
    /\ partial' \in BOOLEAN
    /\ Goto(p, "idle")
    /\ UNCHANGED <<host, slot, at, errors, history>>
\* Variant: a published backup is replaced.
Publish_Replaces(p) ==
    /\ pc[p] = "publish"
    /\ slot' = TRUE /\ partial' = FALSE /\ Goto(p, "proof")
    /\ UNCHANGED <<host, at, errors, history, faults>>
Publish(p) ==
    /\ pc[p] = "publish"
    /\ IF slot
       THEN UNCHANGED backup /\ Goto(p, "idle")
       ELSE slot' = TRUE /\ partial' = FALSE /\ Goto(p, "proof")
    /\ UNCHANGED <<host, at, errors, history, faults>>

\* The fresh backup is restored and its schema proved; then the switch begins.
Prove(p) ==
    /\ pc[p] = "proof"
    /\ \/ Goto(p, "switch") /\ attempts' = attempts + 1 /\ UNCHANGED faults
       \/ Faulty /\ Goto(p, "idle") /\ UNCHANGED attempts
    /\ at' = [at EXCEPT ![p] = 1]
    /\ UNCHANGED <<host, backup, errors, outcome>>

\* One step of the switch.  A failure, or a signal whose handler raises, ends it;
\* verify takes a signal for a failed attempt and tries again, so there it may
\* also be lost, as if it had not come.
Switch(p) ==
    /\ pc[p] = "switch"
    /\ LET s == Forward[at[p]]
       IN \/ /\ Works(host, s) /\ host' = After(host, s)
             /\ at' = [at EXCEPT ![p] = @ + 1]
             /\ Goto(p, IF at[p] = Len(Forward) THEN "switched" ELSE "switch")
             /\ UNCHANGED faults
          \/ /\ ~Works(host, s)
             /\ Goto(p, "caught") /\ UNCHANGED <<host, at, faults>>
          \/ /\ Faulty /\ host' \in Failing(host, s)
             /\ Goto(p, "caught") /\ UNCHANGED at
    /\ UNCHANGED <<backup, errors, history>>

End(p, how) == outcome' = how /\ Goto(p, "idle")

\* Until execute has returned and the handlers are restored a signal still
\* raises, after the last step or before rollback ignores it.
Finish(p) ==
    /\ pc[p] = "switched"
    /\ \/ End(p, "finished") /\ UNCHANGED faults
       \/ Faulty /\ End(p, "interrupted")
    /\ UNCHANGED <<host, backup, at, errors, attempts>>
EnterRollback(p) ==
    /\ pc[p] = "caught"
    /\ \/ Goto(p, "back") /\ UNCHANGED <<outcome, faults>>
       \/ Faulty /\ End(p, "interrupted")
    /\ at' = [at EXCEPT ![p] = 1]
    /\ errors' = [errors EXCEPT ![p] = FALSE]
    /\ UNCHANGED <<host, backup, attempts>>

\* A failing rename of restore_code ends restore_code.
NextBack(i, failed) == IF failed /\ Back[i][1] = "set aside" THEN i + 2 ELSE i + 1

\* Variant: a unit that could not be stopped is not recorded.
Recorded_NotStops(s) == s[1] # "stop"
\* Every failing step of the rollback is recorded, and the rollback goes on.
Recorded(s) == TRUE

Rollback(p) ==
    /\ pc[p] = "back"
    /\ LET s == Back[at[p]]
           Go(failed) ==
             /\ at' = [at EXCEPT ![p] = NextBack(at[p], failed)]
             /\ errors' = [errors EXCEPT ![p] = @ \/ (failed /\ Recorded(s))]
             /\ Goto(p, IF at[p] = Len(Back) THEN "restored" ELSE "back")
       IN \/ Works(host, s) /\ host' = After(host, s) /\ Go(FALSE) /\ UNCHANGED faults
          \/ ~Works(host, s) /\ Go(TRUE) /\ UNCHANGED <<host, faults>>
          \/ Faulty /\ host' \in Failing(host, s) /\ Go(TRUE)
    /\ UNCHANGED <<backup, history>>

\* rollback has restored the handlers; only a rollback without errors is one.
EndRollback(p) ==
    /\ pc[p] = "restored"
    /\ \/ End(p, IF errors[p] THEN "incident" ELSE "rolled back") /\ UNCHANGED faults
       \/ ~errors[p] /\ Faulty /\ End(p, "interrupted")
    /\ UNCHANGED <<host, backup, at, errors, attempts>>

Kill(p) ==
    /\ pc[p] # "idle" /\ Faulty
    /\ Goto(p, "idle")
    /\ outcome' = IF pc[p] \in {"switch", "switched", "caught", "back", "restored"}
                  THEN "killed" ELSE outcome
    /\ UNCHANGED <<host, backup, at, errors, attempts>>

\* A connection to port 443 activates the ingress.
Connect ==
    /\ host.run.socket = "on" /\ host.run.ingress = "off" /\ Startable(host, "ingress")
    /\ host' = Started(host, "ingress")
    /\ UNCHANGED <<backup, pc, at, errors, history, faults>>

Next ==
    \/ Connect
    \/ \E p \in Operators :
         \/ Prepare(p) \/ CopyStage(p) \/ FillStage(p) \/ StageEnv(p)
         \/ Preflight(p) \/ CheckSlot(p) \/ MakePartial(p) \/ AbandonPartial(p)
         \/ Publish(p) \/ Prove(p)
         \/ Switch(p) \/ Finish(p) \/ EnterRollback(p) \/ Rollback(p)
         \/ EndRollback(p) \/ Kill(p)

Spec == Init /\ [][Next]_vars

-----------------------------------------------------------------------------
(* Properties.                                                               *)

\* What the script reports is true of the files and of the processes: finished
\* means that everything is new, rolled back that everything is old again, also
\* after steps that failed half way; before a switch began nothing has changed,
\* and whatever happens the old code is at its own or at the rollback path.
OutcomeIsTrue ==
    /\ attempts = 0 => Everything("old")
    /\ outcome = "finished" => Everything("new")
    /\ outcome = "rolled back" => Everything("old")
    /\ "old" \in {host.code.live, host.code.old}

\* Whoever retries or runs beside another operator, the units are stopped for
\* one switch at most: the fresh backup's slot is taken once and never freed.
OneAttempt == attempts <= 1

\* One cutover at most, and what is reported of it is true.
CutoverIsTrue == OutcomeIsTrue /\ OneAttempt
===============================================================================
