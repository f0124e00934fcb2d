---------------------------- MODULE Installation ----------------------------
(***************************************************************************)
(* What Linux2Win keeps in Windows between two runs of the daemon: a task  *)
(* of the task scheduler, the Run value, StartupEnabled and                *)
(* PermissionPromptShown, the shortcuts, the key of Add/Remove Programs    *)
(* and the files (startup_manager.cpp).  Daemons change it when they       *)
(* start, by the answer to the permission prompt and from the tray menu    *)
(* (daemon_main.cpp, tray_icon.cpp), the setup program when it installs    *)
(* and uninstalls (setup_main.cpp), each by calls made one after the other *)
(* whose failure nobody looks at, beside the others, through reboots.      *)
(***************************************************************************)
EXTENDS Integers, Sequences, FiniteSets

CONSTANTS
  Daemons,     \* processes of linux2win_daemon.exe
  Package,     \* the files setup copies, in order; "daemon" is the daemon's
  Faults,      \* subset of {"call", "slow", "throw", "mutex", "window", "copy",
               \* "absent"}
  Before,      \* whether startup was enabled where Linux2Win was installed before
  MaxLogons, MaxSetups, MaxChoices, MaxStarts, MaxFailures   \* bounds

ASSUME DaemonsAssumption == "setup" \notin Daemons
ASSUME PackageAssumption == Package \in Seq(STRING)
ASSUME BeforeAssumption == Before \subseteq BOOLEAN
ASSUME BoundsAssumption ==
  /\ MaxLogons \in Nat /\ MaxSetups \in Nat /\ MaxChoices \in Nat
  /\ MaxStarts \in Nat /\ MaxFailures \in Nat

Fields == {"task", "run", "enabled", "shown", "links", "key"}
Procs  == Daemons \union {"setup"}
Partial == UNION {[S -> BOOLEAN] : S \in SUBSET Fields}

VARIABLES
  settings,    \* which of the fields are there (or 1)
  late,        \* schtasks processes still at work, by what they do
  plan,        \* per process, the writes it has yet to make
  pc,          \* per daemon, where it is
  quiet,       \* daemons started with --daemon
  offered,     \* per daemon, what its open menu shows as the state of startup
  holders,     \* the daemons with a handle to the instance mutex, which is there as
               \* long as one of them is
  closing,     \* daemons with a WM_CLOSE in their queue
  setup,       \* what the setup program does
  left,        \* files setup has yet to copy
  version,     \* per file, the setup it was copied by
  skipped,     \* history: files this setup did not find beside itself
  starting,    \* what this logon has yet to start
  logons, setups, choices, starts, failures,   \* counters
  since,       \* history of this logon: a daemon went on without the mutex
               \* ("unguarded"), one came to its prompt or its window ("booted")
  promise      \* history: what the last operations are to leave behind, of the
               \* fields no other touched at that time and no call failed for

daemonVars == <<pc, quiet, offered, holders, closing, since>>
setupVars  == <<setup, left, version, skipped>>
userCounts == <<logons, setups, choices, starts>>
counters   == <<userCounts, failures>>
storeVars  == <<settings, late>>
vars == <<storeVars, plan, daemonVars, setupVars, starting, counters, promise>>
-----------------------------------------------------------------------------
\* A write gives some fields a value.
To(S, v) == [f \in S |-> v]

Over(w, old) == [f \in DOMAIN w \union DOMAIN old |->
                   IF f \in DOMAIN w THEN w[f] ELSE old[f]]

\* The promises in w but for those on the fields in S.
Without(w, S) == [f \in DOMAIN w \ S |-> w[f]]

\* The fields that the calls in ws are about.
Touched(ws) == UNION {DOMAIN ws[i] : i \in DOMAIN ws}

\* The fields somebody has yet to write.
Pending ==
  (UNION {Touched(plan[p]) : p \in Procs})
    \union {f \in {"task"} : \E v \in BOOLEAN : late[v] > 0}

\* Mutant: disabling forgets the value is_startup_enabled looks at first.
set_startup_halfway(on) ==
  <<To({"task"}, on), To({"enabled"}, on)>>
    \o (IF on THEN <<To({"run"}, on)>> ELSE <<>>)

\* enable_startup and disable_startup: the task, the Run value, the config key.
set_startup(on) == <<To({"task"}, on), To({"run"}, on), To({"enabled"}, on)>>

\* Mutant: a value is written under another name than it is read.
answer_misspelt(yes) == <<To({"asked"}, TRUE)>> \o set_startup(yes)

\* The answer to the permission prompt is saved, then carried out.
answer(yes) ==
  <<To({"shown"}, TRUE), To({"enabled"}, yes)>> \o set_startup(yes)
    \o (IF yes THEN <<To({"links"}, TRUE)>> ELSE <<>>)

install(on, links) ==
  (IF links THEN <<To({"links"}, TRUE)>> ELSE <<>>) \o set_startup(on)
    \o <<To({"key"}, TRUE)>>

uninstall ==
  set_startup(FALSE)
    \o <<To({"links"}, FALSE), To({"key"}, FALSE), To({"enabled", "shown"}, FALSE)>>

is_startup_enabled == settings["run"] \/ settings["enabled"]

\* Process p begins the writes of ws, which are to bring about result, as far as
\* nobody else is at the same fields.
Begin(p, ws, result) ==
  /\ plan' = [plan EXCEPT ![p] = ws]
  /\ promise' = Without(Over(result, promise), DOMAIN result \intersect Pending)

Startup == {"task", "run", "enabled"}

\* A fault of this sort happens now.
Fails(sort) ==
  /\ sort \in Faults
  /\ failures < MaxFailures
  /\ failures' = failures + 1
-----------------------------------------------------------------------------
\* The next call of p is made, and does what it is to do ...
Write(p) ==
  /\ plan[p] # <<>>
  /\ settings' = Over(Head(plan[p]), settings)
  /\ plan' = [plan EXCEPT ![p] = Tail(@)]
  /\ UNCHANGED <<late, daemonVars, setupVars, starting, counters, promise>>

\* ... or fails, and p goes on as if it had not.
WriteFails(p) ==
  /\ Fails("call")
  /\ plan[p] # <<>>
  /\ plan' = [plan EXCEPT ![p] = Tail(@)]
  /\ promise' = Without(promise, DOMAIN Head(plan[p]))
  /\ UNCHANGED <<storeVars, daemonVars, setupVars, starting, userCounts>>

\* schtasks takes longer than it is waited for ...
WaitTimesOut(p) ==
  /\ Fails("slow")
  /\ plan[p] # <<>>
  /\ DOMAIN Head(plan[p]) = {"task"}
  /\ late' = [late EXCEPT ![Head(plan[p])["task"]] = @ + 1]
  /\ plan' = [plan EXCEPT ![p] = Tail(@)]
  /\ promise' = Without(promise, {"task"})
  /\ UNCHANGED <<settings, daemonVars, setupVars, starting, userCounts>>

\* ... and does its work in the meantime.
LateTask(v) ==
  /\ late[v] > 0
  /\ settings' = [settings EXCEPT !["task"] = v]
  /\ late' = [late EXCEPT ![v] = @ - 1]
  /\ UNCHANGED <<plan, daemonVars, setupVars, starting, counters, promise>>

\* A shortcut that is there cannot be removed: std::filesystem::remove throws, and
\* nothing in the uninstaller catches it.
RemoveThrows ==
  /\ Fails("throw")
  /\ plan["setup"] # <<>>
  /\ Head(plan["setup"]) = To({"links"}, FALSE)
  /\ settings["links"]
  /\ plan' = [plan EXCEPT !["setup"] = <<>>]
  /\ setup' = "ended"
  /\ promise' = Without(promise, Touched(plan["setup"]))
  /\ UNCHANGED <<storeVars, daemonVars, left, version, skipped, starting,
                 userCounts>>
-----------------------------------------------------------------------------
StartDaemon(d, q) ==
  /\ pc[d] = "off"
  /\ pc' = [pc EXCEPT ![d] = "boot"]
  /\ quiet' = IF q THEN quiet \union {d} ELSE quiet \ {d}
  /\ UNCHANGED <<offered, holders, closing, since>>

\* The user starts a daemon, which is not told to be quiet.
StartByHand(d) ==
  /\ starts < MaxStarts
  /\ starts' = starts + 1
  /\ StartDaemon(d, FALSE)
  /\ UNCHANGED <<storeVars, plan, setupVars, starting, logons, setups, choices,
                 failures, promise>>

\* The logon starts what it found in the task scheduler or under Run.
StartAtLogon(d) ==
  \E s \in starting :
    /\ starting' = starting \ {s}
    /\ StartDaemon(d, TRUE)
    /\ UNCHANGED <<storeVars, plan, setupVars, counters, promise>>

\* The mutex exists: a box says so.  CreateMutexW has opened it all the same, and
\* keeps it alive until ...
AlreadyRunning(d) ==
  /\ pc[d] = "boot"
  /\ holders # {}
  /\ holders' = holders \union {d}
  /\ pc' = [pc EXCEPT ![d] = "refused"]
  /\ quiet' = quiet \ {d}
  /\ UNCHANGED <<storeVars, plan, offered, closing, since, setupVars, starting,
                 counters, promise>>

\* ... the user closes the box, and the process ends.
DismissBox(d) ==
  /\ pc[d] = "refused"
  /\ pc' = [pc EXCEPT ![d] = "off"]
  /\ holders' = holders \ {d}
  /\ UNCHANGED <<storeVars, plan, quiet, offered, closing, since, setupVars,
                 starting, counters, promise>>

\* Mutant: the mutex is looked at after the prompt.
FirstInstance_late(d) ==
  /\ pc[d] = "boot"
  /\ holders' = holders \union {d}
  /\ pc' = [pc EXCEPT ![d] = "links"]
  /\ Begin(d, <<To({"links"}, TRUE)>>, To({"links"}, TRUE))
  /\ UNCHANGED <<storeVars, quiet, offered, closing, since, setupVars, starting,
                 counters>>

\* The daemon makes the mutex, or cannot make or open it (that of an elevated
\* daemon is denied to one that is not) and goes on; shortcuts are made.
FirstInstance(d) ==
  /\ pc[d] = "boot"
  /\ \/ holders = {} /\ holders' = {d} /\ UNCHANGED <<since, failures>>
     \/ Fails("mutex") /\ since' = since \union {"unguarded"} /\ UNCHANGED holders
  /\ pc' = [pc EXCEPT ![d] = "links"]
  /\ Begin(d, <<To({"links"}, TRUE)>>, To({"links"}, TRUE))
  /\ UNCHANGED <<storeVars, quiet, offered, closing, setupVars, starting,
                 userCounts>>

\* The prompt is shown unless the daemon is quiet or it has been shown before;
\* without it the window, the monitor and the tray icon follow.
Booted(d) ==
  /\ pc[d] = "links"
  /\ plan[d] = <<>>
  /\ pc' = [pc EXCEPT ![d] =
              IF d \in quiet \/ settings["shown"] THEN "run" ELSE "ask"]
  /\ quiet' = quiet \ {d}
  /\ since' = since \union {"booted"}
  /\ UNCHANGED <<storeVars, plan, offered, holders, closing, setupVars, starting,
                 counters, promise>>

\* The window cannot be made, with the prompt behind it or not needed: the process
\* ends.
NoWindow(d) ==
  /\ Fails("window")
  /\ plan[d] = <<>>
  /\ pc[d] = "answer" \/ (pc[d] = "links" /\ (d \in quiet \/ settings["shown"]))
  /\ pc' = [pc EXCEPT ![d] = "off"]
  /\ holders' = holders \ {d}
  /\ quiet' = quiet \ {d}
  /\ since' = since \union {"booted"}
  /\ UNCHANGED <<storeVars, plan, offered, closing, setupVars, starting, userCounts,
                 promise>>

Answer(d, yes) ==
  /\ pc[d] = "ask"
  /\ choices < MaxChoices
  /\ choices' = choices + 1
  /\ pc' = [pc EXCEPT ![d] = "answer"]
  /\ Begin(d, answer(yes),
           Over(To({"shown"}, TRUE),
                To(IF yes THEN Startup \union {"links"} ELSE Startup, yes)))
  /\ UNCHANGED <<storeVars, quiet, offered, holders, closing, since, setupVars,
                 starting, logons, setups, starts, failures>>

\* The prompt, or the choice in the menu, is carried out.
Settled(d) ==
  /\ pc[d] \in {"answer", "toggle"}
  /\ plan[d] = <<>>
  /\ pc' = [pc EXCEPT ![d] = "run"]
  /\ UNCHANGED <<storeVars, plan, quiet, offered, holders, closing, since,
                 setupVars, starting, counters, promise>>

OpenMenu(d) ==
  /\ pc[d] = "run"
  /\ choices < MaxChoices
  /\ choices' = choices + 1
  /\ pc' = [pc EXCEPT ![d] = "menu"]
  /\ offered' = [offered EXCEPT ![d] = is_startup_enabled]
  /\ UNCHANGED <<storeVars, plan, quiet, holders, closing, since, setupVars,
                 starting, logons, setups, starts, failures, promise>>

\* The choice turns round what the menu showed when it was opened.
ToggleStartup(d) ==
  /\ pc[d] = "menu"
  /\ pc' = [pc EXCEPT ![d] = "toggle"]
  /\ offered' = [offered EXCEPT ![d] = FALSE]
  /\ Begin(d, set_startup(~offered[d]), To(Startup, ~offered[d]))
  /\ UNCHANGED <<storeVars, quiet, holders, closing, since, setupVars,
                 starting, counters>>

\* The menu goes away, or another of its items is chosen.
DismissMenu(d) ==
  /\ pc[d] = "menu"
  /\ pc' = [pc EXCEPT ![d] = "run"]
  /\ offered' = [offered EXCEPT ![d] = FALSE]
  /\ UNCHANGED <<storeVars, plan, quiet, holders, closing, since, setupVars,
                 starting, counters, promise>>

\* The daemon leaves its loop, for a WM_CLOSE or for Exit in the menu, and closes
\* its handle to the mutex.
Leave(d) ==
  /\ \/ pc[d] \in {"run", "menu"} /\ d \in closing
     \/ pc[d] = "menu"
  /\ pc' = [pc EXCEPT ![d] = "off"]
  /\ holders' = holders \ {d}
  /\ closing' = closing \ {d}
  /\ offered' = [offered EXCEPT ![d] = FALSE]
  /\ UNCHANGED <<storeVars, plan, quiet, since, setupVars, starting,
                 counters, promise>>
-----------------------------------------------------------------------------
Busy == setup \in {"copying", "installing", "waiting", "uninstalling"}

\* "Install Now".
StartInstall ==
  /\ ~Busy
  /\ setups < MaxSetups
  /\ setups' = setups + 1
  /\ setup' = "copying"
  /\ left' = Package
  /\ skipped' = {}
  /\ UNCHANGED <<storeVars, plan, daemonVars, version, starting, logons, choices,
                 starts, failures, promise>>

Copied ==
  /\ setup = "copying"
  /\ left # <<>>
  /\ Head(left) = "daemon" => \A d \in Daemons : pc[d] = "off"
  /\ version' = [version EXCEPT ![Head(left)] = setups]
  /\ left' = Tail(left)
  /\ UNCHANGED <<storeVars, plan, daemonVars, setup, skipped, starting, counters,
                 promise>>

\* A file that is not beside setup is passed over; the uninstaller, which is setup
\* itself, is copied unasked.
CopySkipped ==
  /\ setup = "copying"
  /\ left # <<>>
  /\ Head(left) # "uninstall"
  /\ Fails("absent")
  /\ skipped' = skipped \union {Head(left)}
  /\ left' = Tail(left)
  /\ UNCHANGED <<storeVars, plan, daemonVars, setup, version, starting, userCounts,
                 promise>>

\* Mutant: a file that cannot be copied is passed over.
CopyThrows_skipped ==
  /\ setup = "copying"
  /\ left # <<>>
  /\ Head(left) = "daemon" /\ \E d \in Daemons : pc[d] # "off"
  /\ left' = Tail(left)
  /\ UNCHANGED <<storeVars, plan, daemonVars, setup, version, skipped, starting,
                 counters, promise>>

\* copy_file throws, always so if the file is that of a running program; a box
\* tells, and setup may be tried again.
CopyThrows ==
  /\ setup = "copying"
  /\ left # <<>>
  /\ \/ Fails("copy")
     \/ /\ Head(left) = "daemon"
        /\ \E d \in Daemons : pc[d] # "off"
        /\ UNCHANGED failures
  /\ setup' = "ended"
  /\ left' = <<>>
  /\ UNCHANGED <<storeVars, plan, daemonVars, version, skipped, starting,
                 userCounts, promise>>

\* Once the files are there the boxes that were ticked are carried out.
Configure(on, links) ==
  /\ setup = "copying"
  /\ left = <<>>
  /\ setup' = "installing"
  /\ Begin("setup", install(on, links),
           Over(To({"key"}, TRUE),
                Over(To(Startup, on), To(IF links THEN {"links"} ELSE {}, TRUE))))
  /\ UNCHANGED <<storeVars, daemonVars, left, version, skipped, starting, counters>>

\* The daemon is launched if that box was ticked, and success is announced.
Installed ==
  /\ setup = "installing"
  /\ plan["setup"] = <<>>
  /\ setup' = "installed"
  /\ \/ \E d \in Daemons : StartDaemon(d, TRUE)
     \/ UNCHANGED daemonVars
  /\ UNCHANGED <<storeVars, plan, left, version, skipped, starting, counters,
                 promise>>

\* The uninstaller, once confirmed, posts WM_CLOSE to a daemon's window if it
\* finds one, which it does not while the daemon still waits for its prompt.
StartUninstall ==
  /\ ~Busy
  /\ setups < MaxSetups
  /\ setups' = setups + 1
  /\ setup' = "waiting"
  /\ LET shown == {d \in Daemons : pc[d] \in {"run", "menu", "toggle"}}
     IN  closing' \in (IF shown = {} THEN {closing}
                       ELSE {closing \union {d} : d \in shown})
  /\ UNCHANGED <<storeVars, plan, pc, quiet, offered, holders, since, left,
                 version, skipped, starting, logons, choices, starts, failures, promise>>

\* It sleeps for a second, and goes on whether the daemon has ended or not.
Uninstall ==
  /\ setup = "waiting"
  /\ setup' = "uninstalling"
  /\ Begin("setup", uninstall, To(Fields, FALSE))
  /\ UNCHANGED <<storeVars, daemonVars, left, version, skipped, starting, counters>>

Uninstalled ==
  /\ setup = "uninstalling"
  /\ plan["setup"] = <<>>
  /\ setup' = "ended"
  /\ UNCHANGED <<storeVars, plan, daemonVars, left, version, skipped, starting,
                 counters, promise>>


\* The machine goes down, wherever everybody is, and the user logs on again.
Logon ==
  /\ logons < MaxLogons
  /\ logons' = logons + 1
  /\ starting' = {s \in {"task", "run"} : settings[s]}
  /\ pc' = [d \in Daemons |-> "off"]
  /\ plan' = [p \in Procs |-> <<>>]
  /\ late' = [v \in BOOLEAN |-> 0]
  /\ holders' = {}
  /\ closing' = {} /\ quiet' = {} /\ since' = {}
  /\ offered' = [d \in Daemons |-> FALSE]
  /\ setup' = "ended" /\ left' = <<>> /\ skipped' = {}
  /\ promise' = Without(promise, Pending)
  /\ UNCHANGED <<settings, version, setups, choices, starts, failures>>
-----------------------------------------------------------------------------
\* A machine on which Linux2Win has never been, or one on which it was installed
\* before, to be started at logon or not.
Init ==
  /\ \/ settings = To(Fields, FALSE)
     \/ \E on \in Before :
          settings = [f \in Fields |-> f \in {"links", "key"} \/ (f \in Startup /\ on)]
  /\ late = [v \in BOOLEAN |-> 0]
  /\ plan = [p \in Procs |-> <<>>]
  /\ pc = [d \in Daemons |-> "off"]
  /\ quiet = {} /\ closing = {} /\ starting = {}
  /\ offered = [d \in Daemons |-> FALSE]
  /\ holders = {} /\ since = {}
  /\ setup = "ended" /\ left = <<>>
  /\ version = [i \in {Package[j] : j \in DOMAIN Package} |-> 0]
  /\ skipped = {}
  /\ logons = 0 /\ setups = 0 /\ choices = 0 /\ starts = 0 /\ failures = 0
  /\ promise = settings

DaemonStep(d) ==
  \/ AlreadyRunning(d) \/ FirstInstance(d) \/ Booted(d) \/ Settled(d)

Next ==
  \/ \E p \in Procs : Write(p) \/ WriteFails(p) \/ WaitTimesOut(p)
  \/ \E v \in BOOLEAN : LateTask(v)
  \/ RemoveThrows
  \/ \E d \in Daemons : \/ StartByHand(d) \/ StartAtLogon(d) \/ DaemonStep(d)
                        \/ DismissBox(d) \/ NoWindow(d) \/ Leave(d)
                        \/ OpenMenu(d) \/ ToggleStartup(d) \/ DismissMenu(d)
                        \/ \E yes \in BOOLEAN : Answer(d, yes)
  \/ StartInstall \/ Copied \/ CopySkipped \/ CopyThrows \/ Installed
  \/ \E on, links \in BOOLEAN : Configure(on, links)
  \/ StartUninstall \/ Uninstall \/ Uninstalled
  \/ Logon

Spec == Init /\ [][Next]_vars

\* The processes run; what the user does is never owed.
FairSpec ==
  /\ Spec
  /\ \A d \in Daemons : WF_vars(DaemonStep(d) \/ Write(d))
  /\ WF_vars(\E d \in Daemons : StartAtLogon(d))
-----------------------------------------------------------------------------
PastMutex == {"links", "ask", "answer", "run", "menu", "toggle"}

TypeOK ==
  /\ settings \in [Fields -> BOOLEAN]
  /\ late \in [BOOLEAN -> Nat]
  /\ plan \in [Procs -> Seq(Partial)]
  /\ pc \in [Daemons -> PastMutex \union {"off", "boot", "refused"}]
  /\ quiet \subseteq Daemons /\ closing \subseteq Daemons
  /\ offered \in [Daemons -> BOOLEAN]
  /\ holders \subseteq Daemons
  /\ since \subseteq {"unguarded", "booted"}
  /\ setup \in {"copying", "installing", "installed", "waiting", "uninstalling",
                "ended"}
  /\ left \in Seq(STRING)
  /\ version \in [{Package[j] : j \in DOMAIN Package} -> 0..MaxSetups]
  /\ skipped \subseteq STRING
  /\ starting \subseteq {"task", "run"}
  /\ logons \in Nat /\ setups \in 0..MaxSetups /\ choices \in Nat /\ starts \in Nat
  /\ failures \in Nat
  /\ promise \in Partial

\* What an operation was to leave in a field is in it once nobody is at work there
\* any more, unless a call for that very field failed or came late, was cut off by a
\* reboot or an exception, or met another's: the task, the Run value and
\* StartupEnabled agree with the last answer or choice, shortcuts are there or gone,
\* and what uninstalling removes according to its box (not the files, which stay)
\* is removed, whatever else failed, overlapped or was cut off
\* (startup_manager.cpp:99-108, 111-188, setup_main.cpp:170, 184-197).
PromiseKept ==
  \A f \in DOMAIN promise \ Pending : settings[f] = promise[f]

\* Nobody is in front of the prompt who has answered one, here or in another daemon,
\* since Linux2Win was last uninstalled, unless a daemon could not get at the mutex.
\* The answer does not count if PermissionPromptShown could not be written, was cut
\* off by a reboot or met the uninstaller: then the next start asks again
\* (daemon_main.cpp:197-213, startup_manager.cpp:56-67, 91-97).
AskedOnce ==
  "unguarded" \notin since =>
    \A d \in Daemons :
      pc[d] = "ask" => ~("shown" \in DOMAIN promise /\ promise["shown"])

\* Success is announced only of an installation each of whose files is from this
\* setup or was not beside it, running daemons and failing copies notwithstanding.
\* Of a file that was not, what an earlier setup left or nothing at all is there,
\* and success is announced all the same (setup_main.cpp:75-85).
InstalledWhole ==
  setup \in {"installing", "installed"} =>
    \A i \in DOMAIN version : version[i] = setups \/ i \in skipped

=============================================================================
