---------------------------- MODULE StartService ----------------------------
(***************************************************************************)
(* startVault, startConsul and startBoundary (internal/plugin/resource_*_  *)
(* start.go): a fixed order of remote steps, each of which may fail before *)
(* or after it took effect, ending in systemd's RestartService and a wait. *)
(* Terraform runs an apply that failed again, from the first step, and may *)
(* also create the resource anew on a host where the service runs.         *)
(*                                                                         *)
(* systemd and the processes are external: a process reads its unit and    *)
(* its files when it is started, is "starting" until it notifies systemd   *)
(* (Type=notify), and is restarted after a crash (Restart=on-failure).     *)
(* Contents are the number of the apply that wrote them.                   *)
(***************************************************************************)
EXTENDS Naturals, Sequences

CONSTANTS
    Services,     \* subset of {"vault", "consul", "boundary"}
    UnitNames,    \* values of unit_name, "default" when it is not given
    Usernames,    \* values of username, "default" when it is not given
    Options,      \* subset of {"license", "managed", "dir"} a resource may have
    Found,        \* how a unit may be found before the first apply
    MaxApplies,   \* how often the resource is created
    MaxFaults     \* failed commands, lost answers, crashes

ASSUME StartServiceAssumption ==
    /\ Services \subseteq {"vault", "consul", "boundary"}
    /\ UnitNames \subseteq {"default", "custom"}
    /\ Usernames \subseteq {"default", "custom"}
    /\ Options \subseteq {"license", "managed", "dir"}
    /\ Found \subseteq [enabled : BOOLEAN, proc : {"inactive", "starting", "active", "waiting"}]
    /\ MaxApplies \in Nat \ {0}
    /\ MaxFaults \in Nat

VARIABLES
    service, unitName, username,
    options,     \* which of Options the resource has
    apply,       \* number of the apply
    step,        \* where it is in Steps
    result,      \* "pending", "ok" or "error"
    seen,        \* ActiveState as RestartService saw it
    users,       \* users that exist on the host
    files,       \* license, config and env file, by the apply that wrote them
    unit,        \* unit files, what systemd loaded, and the processes
    faults

request == <<service, unitName, username, options>>
host == <<users, files, unit>>
startVars == <<request, apply, step, result, seen, host, faults>>

Units == {"default", "custom"}
FileNames == {"license", "config", "env"}

(* The steps in the order of the code, and those a resource leaves out. *)
StartVault ==
    <<"user", "license", "config", "env", "unit", "reload", "dir",
      "show", "stop", "enable", "enabled", "start", "started", "wait">>
StartConsul ==
    <<"user", "license", "valid", "unit", "reload", "config", "dir", "dir", "validate",
      "show", "stop", "enable", "enabled", "start", "started", "wait">>
StartBoundary ==
    <<"user", "dir", "license", "env", "unit", "reload",
      "show", "stop", "enable", "enabled", "start", "started", "status">>

Steps == CASE service = "vault" -> StartVault
           [] service = "consul" -> StartConsul
           [] OTHER -> StartBoundary

Needed(s) ==
    /\ s \in {"license", "valid"} => "license" \in options
    /\ s \in {"unit", "reload"} => "managed" \in options \/ service = "consul"
    /\ s = "dir" => "dir" \in options \/ service = "consul"

(* The next of them that is not left out. *)
Follows(j) == j > step /\ Needed(Steps[j]) /\ \A i \in step + 1 .. j - 1 : ~Needed(Steps[i])
At(s) == result = "pending" /\ Steps[step] = s

(* consul and boundary restart the unit of the default name. *)
RestartedUnit == IF service = "vault" THEN unitName ELSE "default"

(* Vault's unit names the user vault, whatever the username.  Files are     *)
(* only readable by the user they are given to; consul runs as root.        *)
CanStart ==
    \/ service = "consul"
    \/ service = "vault" /\ username = "default" /\ username \in users
    \/ service = "boundary" /\ username \in users

NothingRead == [license |-> 0, config |-> 0, env |-> 0, unit |-> 0]
NoUnit == [exists |-> FALSE, file |-> 0, loaded |-> 0, enabled |-> FALSE,
           proc |-> "inactive", ran |-> NothingRead]

(* Before the first apply the units a start touches may be there, from the  *)
(* package or from an earlier resource, enabled or not and running or not,  *)
(* with what was on the host then.                                          *)
FoundUnits ==
    {NoUnit} \union {[NoUnit EXCEPT !.exists = TRUE, !.enabled = f.enabled, !.proc = f.proc] :
                        f \in Found}

(* A unit that is not managed comes with the package. *)
StartInit ==
    /\ service \in Services /\ unitName \in UnitNames /\ username \in Usernames
    /\ options \in SUBSET Options
    /\ apply = 1 /\ step = 1 /\ result = "pending" /\ seen = "inactive"
    /\ users = {}
    /\ files = [f \in FileNames |-> 0]
    /\ unit \in [Units -> FoundUnits]
    /\ \A u \in Units \ {unitName, RestartedUnit} : ~unit[u].exists
    /\ ~Needed("unit") => unit[unitName].exists
    /\ faults = 0

-----------------------------------------------------------------------------
(* systemd and the processes, external. *)
Exec(x) == [x EXCEPT !.proc = IF service = "boundary" THEN "active" ELSE "starting",
                     !.ran = [license |-> files.license, config |-> files.config,
                              env |-> files.env, unit |-> x.loaded]]

Ready(u) ==
    /\ unit[u].proc = "starting"
    /\ unit' = [unit EXCEPT ![u].proc = IF CanStart THEN "active" ELSE "waiting"]
    /\ UNCHANGED <<request, apply, step, result, seen, users, files, faults>>

Crash(u) ==
    /\ unit[u].proc \in {"starting", "active"}
    /\ faults < MaxFaults
    /\ faults' = faults + 1
    /\ unit' = [unit EXCEPT ![u].proc = "waiting"]
    /\ UNCHANGED <<request, apply, step, result, seen, users, files>>

AutoRestart(u) ==
    /\ unit[u].proc = "waiting"
    /\ unit' = [unit EXCEPT ![u] = Exec(@)]
    /\ UNCHANGED <<request, apply, step, result, seen, users, files, faults>>

-----------------------------------------------------------------------------
(* A step that took effect goes on to the next, or its answer is lost. *)
Proceed ==
    \/ /\ \E j \in DOMAIN Steps : Follows(j) /\ step' = j
       /\ UNCHANGED <<result, faults>>
    \/ /\ faults < MaxFaults
       /\ faults' = faults + 1
       /\ result' = "error"
       /\ UNCHANGED step

(* A step that fails before it takes effect, or that the timeout cuts off: *)
(* every step but the last of startBoundary checks its error.               *)
StepFails ==
    /\ result = "pending" /\ ~At("status")
    /\ faults < MaxFaults
    /\ faults' = faults + 1
    /\ result' = "error"
    /\ UNCHANGED <<request, apply, step, seen, host>>

(* Mutation: useradd whether or not the user is there already. *)
CreateUserAlways ==
    /\ At("user")
    /\ users' = users \union {username}
    /\ IF username \in users
       THEN result' = "error" /\ UNCHANGED <<step, faults>>
       ELSE Proceed
    /\ UNCHANGED <<request, apply, seen, files, unit>>

(* useradd, or usermod for a user that is there already. *)
CreateOrUpdateUser ==
    /\ At("user")
    /\ users' = users \union {username}
    /\ Proceed
    /\ UNCHANGED <<request, apply, seen, files, unit>>

CopyFile(f) ==
    /\ At(f)
    /\ files' = [files EXCEPT ![f] = apply]
    /\ Proceed
    /\ UNCHANGED <<request, apply, seen, users, unit>>

CreateUnitFile ==
    /\ At("unit")
    /\ unit' = [unit EXCEPT ![unitName] = [@ EXCEPT !.exists = TRUE, !.file = apply]]
    /\ Proceed
    /\ UNCHANGED <<request, apply, seen, users, files>>

Reload(x) == [x EXCEPT !.loaded = x.file]

DaemonReload ==
    /\ At("reload")
    /\ unit' = [u \in Units |-> Reload(unit[u])]
    /\ Proceed
    /\ UNCHANGED <<request, apply, seen, users, files>>

(* mkdir -p and chown leave nothing behind that a later apply trips over. *)
CreateDirectory ==
    /\ At("dir")
    /\ Proceed
    /\ UNCHANGED <<request, apply, seen, host>>

(* consul validate and consul license inspect. *)
Validate ==
    /\ At("valid") \/ At("validate")
    /\ Proceed
    /\ UNCHANGED <<request, apply, seen, host>>

-----------------------------------------------------------------------------
(* RestartService. *)
ShowProperties ==
    /\ At("show")
    /\ seen' = unit[RestartedUnit].proc
    /\ Proceed
    /\ UNCHANGED <<request, apply, host>>

(* Mutation: a service that is active is left running. *)
StopServiceNever ==
    /\ At("stop")
    /\ Proceed
    /\ UNCHANGED <<request, apply, seen, host>>

(* Only a service that was active is stopped. *)
StopService ==
    /\ At("stop")
    /\ unit' = IF seen = "active"
               THEN [unit EXCEPT ![RestartedUnit].proc = "inactive"] ELSE unit
    /\ Proceed
    /\ UNCHANGED <<request, apply, seen, users, files>>

(* systemctl start queues a start unless one is under way or done. *)
StartQueued(x) == IF x.proc \in {"inactive", "waiting"} THEN Exec(x) ELSE x

(* enable --now, which also makes systemd read its units again.  The        *)
(* property UnitFileStatus that is looked up does not exist, so the unit is *)
(* enabled every time.                                                      *)
EnableService ==
    /\ At("enable")
    /\ IF unit[RestartedUnit].exists
       THEN /\ unit' = [unit EXCEPT ![RestartedUnit] = [StartQueued(Reload(@)) EXCEPT !.enabled = TRUE]]
            /\ Proceed
       ELSE /\ result' = "error"
            /\ UNCHANGED <<unit, step, faults>>
    /\ UNCHANGED <<request, apply, seen, users, files>>

StartUnit ==
    /\ At("start")
    /\ unit' = [unit EXCEPT ![RestartedUnit] = StartQueued(@)]
    /\ Proceed
    /\ UNCHANGED <<request, apply, seen, users, files>>

(* systemctl returns when the process is ready, or with an error when it    *)
(* ended before that.                                                       *)
JobDone ==
    /\ At("enabled") \/ At("started")
    /\ \/ unit[RestartedUnit].proc = "active" /\ Proceed
       \/ /\ unit[RestartedUnit].proc = "waiting"
          /\ result' = "error"
          /\ UNCHANGED <<step, faults>>
    /\ UNCHANGED <<request, apply, seen, host>>

(* Mutation: the state is judged by what was read before the restart. *)
WaitForStateStale ==
    /\ At("wait")
    /\ seen = "active" /\ unit[unitName].enabled
    /\ result' = "ok"
    /\ UNCHANGED <<request, apply, step, seen, host, faults>>

(* WaitForState: until the unit is enabled and running.  What else it waits *)
(* for (vault's seal status, consul's leader) is up to the service.         *)
WaitForState ==
    /\ At("wait")
    /\ unit[unitName].proc = "active" /\ unit[unitName].enabled
    /\ result' = "ok"
    /\ UNCHANGED <<request, apply, step, seen, host, faults>>

(* The timeout of one or two minutes: it is long enough for a unit that is  *)
(* on its way, and ends the wait for one that nobody starts or enables.     *)
(* That it strikes earlier is one of StepFails.                             *)
WaitTimesOut ==
    /\ At("wait")
    /\ unit[unitName].proc = "inactive" \/ ~unit[unitName].enabled
    /\ result' = "error"
    /\ UNCHANGED <<request, apply, step, seen, host, faults>>

(* The exit code of systemctl show is saved; it is never an error. *)
ServiceStatus ==
    /\ At("status")
    /\ result' = "ok"
    /\ UNCHANGED <<request, apply, step, seen, host, faults>>

(* Terraform creates the resource again: after an error, or anew. *)
Apply ==
    /\ result # "pending"
    /\ apply < MaxApplies
    /\ apply' = apply + 1
    /\ step' = 1
    /\ result' = "pending"
    /\ UNCHANGED <<request, seen, host, faults>>

StartStep ==
    \/ CreateOrUpdateUser \/ \E f \in FileNames : CopyFile(f)
    \/ CreateUnitFile \/ DaemonReload \/ CreateDirectory \/ Validate
    \/ ShowProperties \/ StopService \/ EnableService \/ StartUnit \/ JobDone
    \/ WaitForState \/ WaitTimesOut \/ ServiceStatus

SystemdStep == \E u \in Units : Ready(u) \/ AutoRestart(u)

StartNext == StartStep \/ StepFails \/ SystemdStep \/ Apply \/ \E u \in Units : Crash(u)

(* The provider's goroutine runs, systemd and the processes make progress,  *)
(* and a failed apply is run again.  A job ends with the first exit of its  *)
(* process, also when the process is restarted over and over.               *)
StartSpec == StartInit /\ [][StartNext]_startVars
    /\ WF_startVars(StartStep) /\ SF_startVars(JobDone) /\ \A u \in Units : WF_startVars(Ready(u) \/ AutoRestart(u))
    /\ WF_startVars(result = "error" /\ Apply)
-----------------------------------------------------------------------------
Read == [license : 0..MaxApplies, config : 0..MaxApplies, env : 0..MaxApplies, unit : 0..MaxApplies]
Procs == {"inactive", "starting", "active", "waiting"}

StartTypeOK ==
    /\ service \in Services /\ unitName \in UnitNames /\ username \in Usernames
    /\ options \subseteq Options
    /\ apply \in 1..MaxApplies /\ step \in DOMAIN Steps
    /\ result \in {"pending", "ok", "error"}
    /\ seen \in Procs
    /\ users \subseteq Usernames
    /\ files \in [FileNames -> 0..MaxApplies]
    /\ unit \in [Units -> [exists : BOOLEAN, file : 0..MaxApplies, loaded : 0..MaxApplies,
                           enabled : BOOLEAN, proc : Procs, ran : Read]]
    /\ faults \in 0..MaxFaults

(* What startVault, startConsul and startBoundary report as started runs     *)
(* with the files and the unit of that very apply, not with those of an      *)
(* earlier one or a mixture, although systemd may restart the service at any *)
(* moment while they are written.  Two gaps: RestartService takes            *)
(* "activating" for stopped, so a process that read its files earlier and    *)
(* was still starting when it looked is kept; and startConsul and            *)
(* startBoundary restart the unit of the default name, whatever unit_name    *)
(* they wrote, so that the unit written may never be started.                *)
Written ==
    {s \in {"license", "config", "env", "unit"} : Needed(s) /\ \E i \in DOMAIN Steps : Steps[i] = s}
RunsWhatWasWritten ==
    result = "ok" /\ seen # "starting" /\ RestartedUnit = unitName =>
        \A s \in Written : unit[unitName].ran[s] = apply

(* Nothing a failed startVault, startConsul or startBoundary leaves behind    *)
(* stands in the way of the next: every fault costs at most one apply.  Not  *)
(* so for a unit_name or username that the code replaces by its own.         *)
RetriedStartSucceeds ==
    (/\ result = "error"
     /\ apply + (MaxFaults - faults) < MaxApplies
     /\ RestartedUnit = unitName
     /\ service = "vault" => username = "default") ~> result = "ok"

(* Every apply returns: RestartService is not held up by a unit that         *)
(* crashes, that cannot start or that does not exist, and the wait that      *)
(* follows only by a unit that nobody starts, until its timeout.             *)
StartReturns == result = "pending" ~> result # "pending"
=============================================================================
