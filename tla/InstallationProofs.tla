------------------------- MODULE InstallationProofs -------------------------
(***************************************************************************)
(* Theorems about Installation, for any number of daemons, reboots, setups *)
(* and failures, and any package.                                          *)
(***************************************************************************)
EXTENDS Installation, TLAPS

USE DEF vars, storeVars, daemonVars, setupVars, counters, userCounts

LEMMA ToIsPartial ==
  ASSUME NEW S \in SUBSET Fields, NEW v \in BOOLEAN
  PROVE  To(S, v) \in Partial
BY DEF To, Partial

LEMMA OverIsPartial ==
  ASSUME NEW w \in Partial, NEW old \in Partial
  PROVE  Over(w, old) \in Partial
<1>1. PICK S \in SUBSET Fields, T \in SUBSET Fields :
        w \in [S -> BOOLEAN] /\ old \in [T -> BOOLEAN]
  BY DEF Partial
<1>2. Over(w, old) \in [S \union T -> BOOLEAN]
  BY <1>1 DEF Over
<1> QED
  BY <1>1, <1>2 DEF Partial

LEMMA WithoutIsPartial ==
  ASSUME NEW w \in Partial, NEW S
  PROVE  /\ Without(w, S) \in Partial
         /\ DOMAIN Without(w, S) = DOMAIN w \ S
         /\ \A f \in DOMAIN w \ S : Without(w, S)[f] = w[f]
<1>1. PICK T \in SUBSET Fields : w \in [T -> BOOLEAN]
  BY DEF Partial
<1>2. Without(w, S) \in [T \ S -> BOOLEAN]
  BY <1>1 DEF Without
<1> QED
  BY <1>1, <1>2 DEF Partial, Without

LEMMA OverKeepsFields ==
  ASSUME NEW w \in Partial, NEW old \in [Fields -> BOOLEAN]
  PROVE  /\ Over(w, old) \in [Fields -> BOOLEAN]
         /\ \A f \in Fields : f \in DOMAIN w => Over(w, old)[f] = w[f]
         /\ \A f \in Fields : f \notin DOMAIN w => Over(w, old)[f] = old[f]
BY DEF Over, Partial

\* The writes the operations plan are writes of some of the fields.
LEMMA PlansAreWrites ==
  ASSUME NEW on \in BOOLEAN, NEW links \in BOOLEAN
  PROVE  /\ set_startup(on) \in Seq(Partial)
         /\ answer(on) \in Seq(Partial)
         /\ install(on, links) \in Seq(Partial)
         /\ uninstall \in Seq(Partial)
<1>1. \A S \in SUBSET Fields, v \in BOOLEAN : To(S, v) \in Partial
  BY ToIsPartial
<1>2. ASSUME NEW v \in BOOLEAN PROVE set_startup(v) \in Seq(Partial)
  BY <1>1 DEF set_startup, Fields
<1>3. set_startup(FALSE) \in Seq(Partial)
  BY <1>2
<1>4. /\ <<To({"shown"}, TRUE), To({"enabled"}, on)>> \in Seq(Partial)
      /\ <<To({"links"}, TRUE)>> \in Seq(Partial)
      /\ <<To({"key"}, TRUE)>> \in Seq(Partial)
      /\ <<To({"links"}, FALSE), To({"key"}, FALSE),
           To({"enabled", "shown"}, FALSE)>> \in Seq(Partial)
      /\ <<>> \in Seq(Partial)
  <2>1. /\ To({"shown"}, TRUE) \in Partial /\ To({"enabled"}, on) \in Partial
        /\ To({"links"}, TRUE) \in Partial /\ To({"key"}, TRUE) \in Partial
        /\ To({"links"}, FALSE) \in Partial /\ To({"key"}, FALSE) \in Partial
        /\ To({"enabled", "shown"}, FALSE) \in Partial
    BY <1>1 DEF Fields
  <2>2. /\ <<>> \in Seq(Partial)
        /\ \A a \in Partial : <<a>> \in Seq(Partial)
        /\ \A a, b \in Partial : <<a, b>> \in Seq(Partial)
        /\ \A a, b, c \in Partial : <<a, b, c>> \in Seq(Partial)
    OBVIOUS
  <2> QED
    BY <2>1, <2>2, Zenon
<1>5. \A a, b \in Seq(Partial) : a \o b \in Seq(Partial)
  OBVIOUS
<1>6. answer(on) \in Seq(Partial)
  BY <1>2, <1>4, <1>5 DEF answer
<1>7. install(on, links) \in Seq(Partial)
  BY <1>2, <1>4, <1>5 DEF install
<1>8. uninstall \in Seq(Partial)
  BY <1>3, <1>4, <1>5 DEF uninstall
<1> QED
  BY <1>2, <1>6, <1>7, <1>8

LEMMA PlannedTypes ==
  ASSUME TypeOK, NEW p \in Procs, NEW ws \in Seq(Partial), NEW result \in Partial,
         Begin(p, ws, result)
  PROVE  plan' \in [Procs -> Seq(Partial)] /\ promise' \in Partial
<1>1. Over(result, promise) \in Partial
  BY OverIsPartial DEF TypeOK
<1>2. promise' \in Partial
  BY <1>1, WithoutIsPartial DEF Begin
<1> QED
  BY <1>2 DEF Begin, TypeOK

LEMMA TailTypes ==
  ASSUME TypeOK, NEW p \in Procs, plan[p] # <<>>,
         plan' = [plan EXCEPT ![p] = Tail(@)]
  PROVE  plan' \in [Procs -> Seq(Partial)] /\ Head(plan[p]) \in Partial
BY DEF TypeOK
-----------------------------------------------------------------------------
\* The calls of a plan, that succeed, fail, come late or end the process.
LEMMA CallTypes ==
  ASSUME TypeOK, NEW p \in Procs,
         Write(p) \/ WriteFails(p) \/ WaitTimesOut(p) \/ RemoveThrows
  PROVE  TypeOK'
<1>0. \A S : Without(promise, S) \in Partial
  BY WithoutIsPartial DEF TypeOK
<1>1. CASE Write(p)
  BY <1>1, TailTypes, OverKeepsFields DEF Write, TypeOK
<1>2. CASE WriteFails(p)
  BY <1>0, <1>2, TailTypes DEF WriteFails, Fails, TypeOK
<1>3. CASE WaitTimesOut(p)
  <2>1. plan' \in [Procs -> Seq(Partial)]
    BY <1>3, TailTypes DEF WaitTimesOut
  <2>2. late' \in [BOOLEAN -> Nat]
    <3>1. Head(plan[p])["task"] \in BOOLEAN
      <4>1. PICK S \in SUBSET Fields : Head(plan[p]) \in [S -> BOOLEAN]
        BY <1>3, TailTypes DEF WaitTimesOut, Partial
      <4>2. "task" \in S
        BY <1>3, <4>1 DEF WaitTimesOut
      <4> DEFINE w == Head(plan[p])
      <4>3. w \in [S -> BOOLEAN]
        BY <4>1
      <4> HIDE DEF w
      <4>4. w["task"] \in BOOLEAN
        BY <4>2, <4>3
      <4> QED
        BY <4>4 DEF w
    <3>2. PICK v \in BOOLEAN : late' = [late EXCEPT ![v] = @ + 1]
      BY <1>3, <3>1 DEF WaitTimesOut
    <3> QED
      BY <3>2 DEF TypeOK
  <2>3. failures' \in Nat
    BY <1>3 DEF WaitTimesOut, Fails, TypeOK
  <2> QED
    BY <1>0, <1>3, <2>1, <2>2, <2>3 DEF WaitTimesOut, TypeOK
<1>4. CASE RemoveThrows
  BY <1>0, <1>4 DEF RemoveThrows, Fails, TypeOK, Procs
<1> QED
  BY <1>1, <1>2, <1>3, <1>4

\* The steps of a daemon and of its user.
LEMMA DaemonTypes ==
  ASSUME TypeOK, NEW d \in Daemons,
         \/ StartByHand(d) \/ StartAtLogon(d) \/ DaemonStep(d)
         \/ DismissBox(d) \/ NoWindow(d) \/ Leave(d)
         \/ OpenMenu(d) \/ ToggleStartup(d) \/ DismissMenu(d)
         \/ \E yes \in BOOLEAN : Answer(d, yes)
  PROVE  TypeOK'
<1>0. d \in Procs
  BY DEF Procs
<1>1. CASE StartByHand(d) \/ StartAtLogon(d)
  <2>1. pc' \in [Daemons -> PastMutex \union {"off", "boot", "refused"}] /\ quiet' \subseteq Daemons
    BY <1>1 DEF StartByHand, StartAtLogon, StartDaemon, TypeOK
  <2>2. starts' \in Nat
    <3>1. starts' = starts \/ starts' = starts + 1
      BY <1>1 DEF StartByHand, StartAtLogon
    <3> QED
      BY <3>1 DEF TypeOK
  <2>3. starting' \subseteq {"task", "run"}
    BY <1>1 DEF StartByHand, StartAtLogon, TypeOK
  <2> QED
    BY <1>1, <2>1, <2>2, <2>3 DEF StartByHand, StartAtLogon, StartDaemon, TypeOK
<1>2. CASE AlreadyRunning(d)
  BY <1>2 DEF AlreadyRunning, TypeOK, PastMutex
<1>2a. CASE DismissBox(d) \/ NoWindow(d)
  <2>1. pc' \in [Daemons -> PastMutex \union {"off", "boot", "refused"}]
    BY <1>2a DEF DismissBox, NoWindow, TypeOK
  <2>2. CASE DismissBox(d)
    BY <2>1, <2>2 DEF DismissBox, TypeOK
  <2>3. CASE NoWindow(d)
    <3>1. /\ holders' \subseteq Daemons /\ quiet' \subseteq Daemons
          /\ since' \subseteq {"unguarded", "booted"}
      BY <2>3 DEF NoWindow, TypeOK
    <3>2. failures' \in Nat
      BY <2>3 DEF NoWindow, Fails, TypeOK
    <3> QED
      BY <2>1, <2>3, <3>1, <3>2 DEF NoWindow, TypeOK
  <2> QED
    BY <1>2a, <2>2, <2>3
<1>3. CASE FirstInstance(d)
  <2>1. <<To({"links"}, TRUE)>> \in Seq(Partial) /\ To({"links"}, TRUE) \in Partial
    <3>1. To({"links"}, TRUE) \in Partial
      BY ToIsPartial DEF Fields
    <3>2. \A w \in Partial : <<w>> \in Seq(Partial)
      OBVIOUS
    <3> QED
      BY <3>1, <3>2
  <2>2. plan' \in [Procs -> Seq(Partial)] /\ promise' \in Partial
    BY <1>0, <1>3, <2>1, PlannedTypes DEF FirstInstance
  <2>3. /\ holders' \subseteq Daemons /\ since' \subseteq {"unguarded", "booted"}
        /\ failures' \in Nat
    <3>1. CASE holders' = {d} /\ UNCHANGED <<since, failures>>
      BY <3>1 DEF TypeOK
    <3>2. CASE /\ Fails("mutex") /\ since' = since \union {"unguarded"}
               /\ UNCHANGED holders
      BY <3>2 DEF Fails, TypeOK
    <3> QED
      BY <1>3, <3>1, <3>2 DEF FirstInstance
  <2>4. pc' \in [Daemons -> PastMutex \union {"off", "boot", "refused"}]
    BY <1>3 DEF FirstInstance, TypeOK, PastMutex
  <2> QED
    BY <1>3, <2>2, <2>3, <2>4 DEF FirstInstance, TypeOK
<1>4. CASE Booted(d) \/ Settled(d)
  BY <1>4 DEF Booted, Settled, TypeOK, PastMutex
<1>5. CASE OpenMenu(d)
  BY <1>5 DEF OpenMenu, is_startup_enabled, TypeOK, PastMutex, Fields
<1>6. CASE ToggleStartup(d)
  <2>1. set_startup(~offered[d]) \in Seq(Partial) /\ To(Startup, ~offered[d]) \in Partial
    BY PlansAreWrites, ToIsPartial DEF TypeOK, Startup, Fields
  <2>2. plan' \in [Procs -> Seq(Partial)] /\ promise' \in Partial
    BY <1>0, <1>6, <2>1, PlannedTypes DEF ToggleStartup
  <2> QED
    BY <1>6, <2>2 DEF ToggleStartup, TypeOK, PastMutex
<1>7. CASE DismissMenu(d) \/ Leave(d)
  BY <1>7 DEF DismissMenu, Leave, TypeOK, PastMutex
<1>8. ASSUME NEW yes \in BOOLEAN, Answer(d, yes) PROVE TypeOK'
  <2>1. answer(yes) \in Seq(Partial)
    BY PlansAreWrites
  <2>2. Over(To({"shown"}, TRUE),
             To(IF yes THEN Startup \union {"links"} ELSE Startup, yes)) \in Partial
    BY ToIsPartial, OverIsPartial DEF Startup, Fields
  <2>3. plan' \in [Procs -> Seq(Partial)] /\ promise' \in Partial
    BY <1>0, <1>8, <2>1, <2>2, PlannedTypes DEF Answer
  <2> QED
    BY <1>8, <2>3 DEF Answer, TypeOK, PastMutex
<1> QED
  BY <1>1, <1>2, <1>2a, <1>3, <1>4, <1>5, <1>6, <1>7, <1>8 DEF DaemonStep

\* The steps of setup, and a reboot.
LEMMA SetupTypes ==
  ASSUME TypeOK,
         \/ StartInstall \/ Copied \/ CopySkipped \/ CopyThrows \/ Installed
         \/ \E on, links \in BOOLEAN : Configure(on, links)
         \/ StartUninstall \/ Uninstall \/ Uninstalled
         \/ Logon
  PROVE  TypeOK'
<1>0. "setup" \in Procs
  BY DEF Procs
<1>1. CASE StartInstall
  BY <1>1, PackageAssumption, BoundsAssumption DEF StartInstall, TypeOK
<1>2. CASE Copied
  <2>1. left' \in Seq(STRING)
    BY <1>2 DEF Copied, TypeOK
  <2>2. version' \in [{Package[j] : j \in DOMAIN Package} -> 0..MaxSetups]
    BY <1>2 DEF Copied, TypeOK
  <2> QED
    BY <1>2, <2>1, <2>2 DEF Copied, TypeOK
<1>2a. CASE CopySkipped
  <2>1. left' \in Seq(STRING) /\ skipped' \subseteq STRING
    <3>1. /\ left \in Seq(STRING) /\ left # <<>> /\ skipped \subseteq STRING
          /\ left' = Tail(left) /\ skipped' = skipped \union {Head(left)}
      BY <1>2a DEF CopySkipped, TypeOK
    <3>2. Tail(left) \in Seq(STRING) /\ Head(left) \in STRING
      BY <3>1
    <3>3. PICK h : h = Head(left)
      OBVIOUS
    <3> QED
      BY <3>1, <3>2, <3>3
  <2>2. failures' \in Nat
    BY <1>2a DEF CopySkipped, Fails, TypeOK
  <2> QED
    BY <1>2a, <2>1, <2>2 DEF CopySkipped, TypeOK
<1>3. CASE CopyThrows
  BY <1>3 DEF CopyThrows, Fails, TypeOK
<1>4. ASSUME NEW on \in BOOLEAN, NEW links \in BOOLEAN, Configure(on, links)
      PROVE  TypeOK'
  <2>1. install(on, links) \in Seq(Partial)
    BY PlansAreWrites
  <2>2. Over(To({"key"}, TRUE),
             Over(To(Startup, on), To(IF links THEN {"links"} ELSE {}, TRUE))) \in Partial
    <3>1. /\ To({"key"}, TRUE) \in Partial /\ To(Startup, on) \in Partial
          /\ To(IF links THEN {"links"} ELSE {}, TRUE) \in Partial
      BY ToIsPartial DEF Startup, Fields
    <3> QED
      BY <3>1, OverIsPartial
  <2>3. plan' \in [Procs -> Seq(Partial)] /\ promise' \in Partial
    BY <1>0, <1>4, <2>1, <2>2, PlannedTypes DEF Configure
  <2> QED
    BY <1>4, <2>3 DEF Configure, TypeOK
<1>5. CASE Installed
  BY <1>5 DEF Installed, StartDaemon, TypeOK
<1>6. CASE StartUninstall
  <2>1. closing' \subseteq Daemons
    BY <1>6 DEF StartUninstall, TypeOK
  <2>2. setups' \in 0..MaxSetups
    BY <1>6, BoundsAssumption, SMTT(30) DEF StartUninstall, TypeOK
  <2> QED
    BY <1>6, <2>1, <2>2 DEF StartUninstall, TypeOK
<1>7. CASE Uninstall
  <2>1. uninstall \in Seq(Partial) /\ To(Fields, FALSE) \in Partial
    BY PlansAreWrites, ToIsPartial
  <2>2. plan' \in [Procs -> Seq(Partial)] /\ promise' \in Partial
    BY <1>0, <1>7, <2>1, PlannedTypes DEF Uninstall
  <2> QED
    BY <1>7, <2>2 DEF Uninstall, TypeOK
<1>8. CASE Uninstalled
  BY <1>8 DEF Uninstalled, TypeOK
<1>9. CASE Logon
  <2>1. promise' \in Partial
    BY <1>9, WithoutIsPartial DEF Logon, TypeOK
  <2>2. plan' \in [Procs -> Seq(Partial)]
    BY <1>9 DEF Logon
  <2>3. late' \in [BOOLEAN -> Nat] /\ left' \in Seq(STRING)
    BY <1>9 DEF Logon
  <2>4. /\ pc' \in [Daemons -> PastMutex \union {"off", "boot", "refused"}]
        /\ offered' \in [Daemons -> BOOLEAN]
    BY <1>9 DEF Logon
  <2>5. starting' \subseteq {"task", "run"} /\ logons' \in Nat
    BY <1>9 DEF Logon, TypeOK
  <2> QED
    BY <1>9, <2>1, <2>2, <2>3, <2>4, <2>5 DEF Logon, TypeOK
<1> QED
  BY <1>1, <1>2, <1>2a, <1>3, <1>4, <1>5, <1>6, <1>7, <1>8, <1>9

LEMMA TypeStep == TypeOK /\ [Next]_vars => TypeOK'
<1> SUFFICES ASSUME TypeOK, [Next]_vars PROVE TypeOK'
  OBVIOUS
<1>1. ASSUME NEW v \in BOOLEAN, LateTask(v) PROVE TypeOK'
  <2>1. settings' \in [Fields -> BOOLEAN]
    BY <1>1 DEF LateTask, TypeOK
  <2>2. late' \in [BOOLEAN -> Nat]
    BY <1>1 DEF LateTask, TypeOK
  <2> QED
    BY <1>1, <2>1, <2>2 DEF LateTask, TypeOK
<1>2. CASE UNCHANGED vars
  BY <1>2 DEF TypeOK
<1> QED
  BY <1>1, <1>2, CallTypes, DaemonTypes, SetupTypes DEF Next, Procs

LEMMA InitTypes == Init => TypeOK
<1> SUFFICES ASSUME Init PROVE TypeOK
  OBVIOUS
<1>1. /\ settings \in [Fields -> BOOLEAN] /\ promise = settings
  BY DEF Init, To, Over, Fields, Startup
<1>2. promise \in Partial
  BY <1>1 DEF Partial
<1>3. /\ late \in [BOOLEAN -> Nat] /\ plan \in [Procs -> Seq(Partial)]
      /\ left \in Seq(STRING)
  BY DEF Init
<1>4. /\ version \in [{Package[j] : j \in DOMAIN Package} -> 0..MaxSetups]
      /\ setups \in 0..MaxSetups
  BY BoundsAssumption DEF Init
<1>5. pc \in [Daemons -> PastMutex \union {"off", "boot", "refused"}] /\ offered \in [Daemons -> BOOLEAN]
  BY DEF Init
<1> QED
  BY <1>1, <1>2, <1>3, <1>4, <1>5 DEF Init, TypeOK
-----------------------------------------------------------------------------
\* Where a process is while it has calls to make.
AtWork(p) ==
  \/ p \in Daemons /\ pc[p] \in {"links", "answer", "toggle"}
  \/ p = "setup" /\ setup \in {"installing", "uninstalling"}

BusyPlans == \A p \in Procs : plan[p] # <<>> => AtWork(p)

\* Nobody leaves such a place before its calls are made, or comes to be elsewhere
\* with calls left.
LEMMA BusyStep == TypeOK /\ BusyPlans /\ [Next]_vars => BusyPlans'
<1> SUFFICES ASSUME TypeOK, BusyPlans, [Next]_vars PROVE BusyPlans'
  OBVIOUS
<1>0. ASSUME NEW p \in Procs, NEW ws, plan' = [plan EXCEPT ![p] = ws],
             ws # <<>> => AtWork(p)',
             \A q \in Procs \ {p} : AtWork(q) => AtWork(q)'
      PROVE  BusyPlans'
  BY <1>0 DEF BusyPlans, TypeOK
<1>1. ASSUME NEW p \in Procs, Write(p) \/ WriteFails(p) \/ WaitTimesOut(p)
      PROVE  BusyPlans'
  <2>1. /\ plan' = [plan EXCEPT ![p] = Tail(plan[p])] /\ plan[p] # <<>>
        /\ pc' = pc /\ setup' = setup
    BY <1>1 DEF Write, WriteFails, WaitTimesOut
  <2>2. AtWork(p) /\ \A q \in Procs : AtWork(q) => AtWork(q)'
    BY <2>1 DEF BusyPlans, AtWork
  <2> QED
    BY <1>0, <2>1, <2>2
<1>2. CASE RemoveThrows
  <2>1. plan' = [plan EXCEPT !["setup"] = <<>>] /\ pc' = pc
    BY <1>2 DEF RemoveThrows
  <2>2. "setup" \in Procs /\ \A q \in Procs \ {"setup"} : AtWork(q) => AtWork(q)'
    BY <2>1 DEF AtWork, Procs
  <2> QED
    BY <1>0, <2>1, <2>2
<1>3. ASSUME NEW d \in Daemons, NEW ws, NEW result, Begin(d, ws, result),
             NEW w \in {"links", "answer", "toggle"}, pc' = [pc EXCEPT ![d] = w],
             setup' = setup
      PROVE  BusyPlans'
  <2>1. d \in Procs /\ plan' = [plan EXCEPT ![d] = ws]
    BY <1>3 DEF Begin, Procs
  <2>2. AtWork(d)' /\ \A q \in Procs \ {d} : AtWork(q) => AtWork(q)'
    BY <1>3 DEF AtWork, TypeOK
  <2> QED
    BY <1>0, <2>1, <2>2
<1>4. ASSUME NEW d \in Daemons,
             FirstInstance(d) \/ ToggleStartup(d) \/ \E yes \in BOOLEAN : Answer(d, yes)
      PROVE  BusyPlans'
  <2>1. CASE FirstInstance(d)
    BY <1>3, <2>1 DEF FirstInstance
  <2>2. CASE ToggleStartup(d)
    BY <1>3, <2>2 DEF ToggleStartup
  <2>3. CASE \E yes \in BOOLEAN : Answer(d, yes)
    BY <1>3, <2>3 DEF Answer
  <2> QED
    BY <1>4, <2>1, <2>2, <2>3
<1>5. CASE (\E on, links \in BOOLEAN : Configure(on, links)) \/ Uninstall
  <2>1. PICK ws : plan' = [plan EXCEPT !["setup"] = ws]
    BY <1>5 DEF Configure, Uninstall, Begin
  <2>2. pc' = pc /\ setup' \in {"installing", "uninstalling"}
    BY <1>5 DEF Configure, Uninstall
  <2>3. /\ "setup" \in Procs /\ AtWork("setup")'
        /\ \A q \in Procs \ {"setup"} : AtWork(q) => AtWork(q)'
    BY <2>2 DEF AtWork, Procs
  <2> QED
    BY <1>0, <2>1, <2>3
\* The others leave the plans alone.
<1>6. ASSUME plan' = plan,
             \A d \in Daemons : plan[d] # <<>> /\ pc[d] \in {"links", "answer", "toggle"} =>
               pc'[d] \in {"links", "answer", "toggle"},
             plan["setup"] # <<>> /\ setup \in {"installing", "uninstalling"} =>
               setup' \in {"installing", "uninstalling"}
      PROVE  BusyPlans'
  BY <1>6 DEF BusyPlans, AtWork
<1>7. ASSUME NEW d \in Daemons,
             \/ StartByHand(d) \/ StartAtLogon(d) \/ AlreadyRunning(d) \/ DismissBox(d)
             \/ Booted(d) \/ NoWindow(d) \/ Settled(d) \/ OpenMenu(d) \/ DismissMenu(d)
             \/ Leave(d)
      PROVE  BusyPlans'
  <2>1. plan' = plan /\ setup' = setup
    BY <1>7 DEF StartByHand, StartAtLogon, AlreadyRunning, DismissBox, Booted, NoWindow,
                Settled, OpenMenu, DismissMenu, Leave
  <2>2. \A e \in Daemons : plan[e] # <<>> /\ pc[e] \in {"links", "answer", "toggle"} =>
          pc'[e] \in {"links", "answer", "toggle"}
    BY <1>7 DEF StartByHand, StartAtLogon, StartDaemon, AlreadyRunning, DismissBox, Booted,
                NoWindow, Settled, OpenMenu, DismissMenu, Leave, TypeOK
  <2> QED
    BY <1>6, <2>1, <2>2
<1>8. CASE Installed
  BY <1>6, <1>8 DEF Installed, StartDaemon, TypeOK
<1>9. CASE \/ \E v \in BOOLEAN : LateTask(v)
           \/ StartInstall \/ Copied \/ CopySkipped \/ CopyThrows \/ StartUninstall
           \/ Uninstalled \/ UNCHANGED vars
  <2>1. plan' = plan /\ pc' = pc
    BY <1>9 DEF LateTask, StartInstall, Copied, CopySkipped, CopyThrows, StartUninstall,
                Uninstalled
  <2>2. plan["setup"] # <<>> /\ setup \in {"installing", "uninstalling"} =>
          setup' \in {"installing", "uninstalling"}
    BY <1>9 DEF LateTask, StartInstall, Copied, CopySkipped, CopyThrows, StartUninstall,
                Uninstalled, Busy
  <2> QED
    BY <1>6, <2>1, <2>2
<1>10. CASE Logon
  BY <1>10 DEF Logon, BusyPlans
<1> QED
  BY <1>1, <1>2, <1>4, <1>5, <1>7, <1>8, <1>9, <1>10 DEF Next, DaemonStep
-----------------------------------------------------------------------------
\* The last write of f in ws gives it v.
Brings(ws, f, v) ==
  \E i \in 1 .. Len(ws) :
    /\ f \in DOMAIN ws[i] /\ ws[i][f] = v
    /\ \A j \in i + 1 .. Len(ws) : f \notin DOMAIN ws[j]

\* A plan brings its result about, and writes nothing else.
Achieves(ws, result) ==
  /\ \A f \in DOMAIN result : Brings(ws, f, result[f])
  /\ \A i \in 1 .. Len(ws) : DOMAIN ws[i] \subseteq DOMAIN result

\* What is promised of f is there and nobody is at it, or one process brings it about.
Kept(f) ==
  \/ settings[f] = promise[f] /\ \A p \in Procs : f \notin Touched(plan[p])
  \/ \E p \in Procs : /\ Brings(plan[p], f, promise[f])
                      /\ \A q \in Procs \ {p} : f \notin Touched(plan[q])

PromiseInv ==
  \A f \in DOMAIN promise :
    Kept(f) /\ (f = "task" => \A v \in BOOLEAN : ~(late[v] > 0))

LEMMA TouchedTail ==
  ASSUME NEW ws \in Seq(Partial), ws # <<>>
  PROVE  \A f : f \in Touched(ws) <=> f \in DOMAIN Head(ws) \/ f \in Touched(Tail(ws))
<1>1. /\ Len(ws) \in Nat /\ Len(ws) >= 1 /\ DOMAIN ws = 1 .. Len(ws) /\ Head(ws) = ws[1]
      /\ DOMAIN Tail(ws) = 1 .. Len(ws) - 1
      /\ \A i \in 1 .. Len(ws) - 1 : Tail(ws)[i] = ws[i + 1]
  OBVIOUS
<1>2. ASSUME NEW f, NEW i \in 1 .. Len(ws), f \in DOMAIN ws[i]
      PROVE  f \in DOMAIN Head(ws) \/ f \in Touched(Tail(ws))
  <2>1. CASE i = 1
    BY <1>1, <1>2, <2>1
  <2>2. CASE i # 1
    <3>1. i - 1 \in DOMAIN Tail(ws) /\ Tail(ws)[i - 1] = ws[i]
      BY <1>1, <2>2
    <3> QED
      BY <1>2, <3>1 DEF Touched
  <2> QED
    BY <2>1, <2>2
<1>3. ASSUME NEW f, NEW i \in 1 .. Len(ws) - 1, f \in DOMAIN Tail(ws)[i]
      PROVE  f \in Touched(ws)
  <2>1. i + 1 \in DOMAIN ws /\ f \in DOMAIN ws[i + 1]
    BY <1>1, <1>3
  <2> QED
    BY <2>1, Zenon DEF Touched
<1>4. \A f : f \in DOMAIN Head(ws) => f \in Touched(ws)
  <2>1. 1 \in DOMAIN ws
    BY <1>1
  <2> QED
    BY <1>1, <2>1, Zenon DEF Touched
<1>5. \A f : f \in Touched(ws) => f \in DOMAIN Head(ws) \/ f \in Touched(Tail(ws))
  BY <1>1, <1>2, Zenon DEF Touched
<1>6. \A f : f \in Touched(Tail(ws)) => f \in Touched(ws)
  BY <1>1, <1>3, Zenon DEF Touched
<1> QED
  BY <1>4, <1>5, <1>6

LEMMA BringsTouches ==
  ASSUME NEW ws \in Seq(Partial), NEW f, NEW v, Brings(ws, f, v)
  PROVE  f \in Touched(ws)
<1>1. DOMAIN ws = 1 .. Len(ws)
  OBVIOUS
<1> QED
  BY <1>1, Zenon DEF Brings, Touched

\* The last write of f is still to come, or was the first of the plan.
LEMMA BringsTail ==
  ASSUME NEW ws \in Seq(Partial), ws # <<>>, NEW f, NEW v, Brings(ws, f, v)
  PROVE  \/ Brings(Tail(ws), f, v)
         \/ f \in DOMAIN Head(ws) /\ Head(ws)[f] = v /\ f \notin Touched(Tail(ws))
<1>1. /\ Len(ws) \in Nat /\ Len(ws) >= 1 /\ Head(ws) = ws[1]
      /\ Len(Tail(ws)) = Len(ws) - 1 /\ DOMAIN Tail(ws) = 1 .. Len(ws) - 1
      /\ \A i \in 1 .. Len(ws) - 1 : Tail(ws)[i] = ws[i + 1]
  OBVIOUS
<1>2. PICK i \in 1 .. Len(ws) :
        /\ f \in DOMAIN ws[i] /\ ws[i][f] = v
        /\ \A j \in i + 1 .. Len(ws) : f \notin DOMAIN ws[j]
  BY DEF Brings
<1>3. \A j \in 1 .. Len(ws) - 1 : j >= i => f \notin DOMAIN Tail(ws)[j]
  BY <1>1, <1>2
<1>4. CASE i = 1
  <2>1. \A j \in DOMAIN Tail(ws) : f \notin DOMAIN Tail(ws)[j]
    BY <1>1, <1>3, <1>4
  <2> QED
    BY <1>1, <1>2, <1>4, <2>1 DEF Touched
<1>5. CASE i # 1
  <2>1. /\ i - 1 \in 1 .. Len(Tail(ws)) /\ Tail(ws)[i - 1] = ws[i]
        /\ \A j \in (i - 1) + 1 .. Len(Tail(ws)) : f \notin DOMAIN Tail(ws)[j]
    BY <1>1, <1>3, <1>5
  <2> QED
    BY <1>2, <2>1 DEF Brings
<1> QED
  BY <1>4, <1>5

\* The three ways to keep a promise on f.
LEMMA KeptByPlan ==
  ASSUME NEW f, NEW p \in Procs, Brings(plan'[p], f, promise'[f]),
         \A q \in Procs \ {p} : f \notin Touched(plan'[q])
  PROVE  Kept(f)'
BY Zenon DEF Kept, Touched, Brings

LEMMA KeptAtRest ==
  ASSUME NEW f, settings'[f] = promise'[f], \A p \in Procs : f \notin Touched(plan'[p])
  PROVE  Kept(f)'
BY Zenon DEF Kept, Touched

LEMMA KeptAsItWas ==
  ASSUME NEW f, Kept(f), settings'[f] = settings[f], plan' = plan,
         promise'[f] = promise[f]
  PROVE  Kept(f)'
<1>1. CASE settings[f] = promise[f] /\ \A p \in Procs : f \notin Touched(plan[p])
  <2>1. settings'[f] = promise'[f] /\ \A p \in Procs : f \notin Touched(plan'[p])
    BY <1>1, Zenon
  <2> QED
    BY <2>1, KeptAtRest
<1>2. ASSUME NEW p \in Procs, Brings(plan[p], f, promise[f]),
             \A q \in Procs \ {p} : f \notin Touched(plan[q])
      PROVE  Kept(f)'
  <2>1. Brings(plan'[p], f, promise'[f]) /\ \A q \in Procs \ {p} : f \notin Touched(plan'[q])
    BY <1>2, Zenon
  <2> QED
    BY <2>1, KeptByPlan
<1> QED
  BY <1>1, <1>2, Zenon DEF Kept

\* A promise outlasts the next call of any plan, if that is made or about other fields.
LEMMA KeptAfterCall ==
  ASSUME TypeOK, NEW p \in Procs, plan[p] # <<>>, plan' = [plan EXCEPT ![p] = Tail(@)],
         NEW f, Kept(f), promise'[f] = promise[f],
         f \in DOMAIN Head(plan[p]) => settings'[f] = Head(plan[p])[f],
         f \notin DOMAIN Head(plan[p]) => settings'[f] = settings[f]
  PROVE  Kept(f)'
<1>1. PICK ws : ws = plan[p]
  OBVIOUS
<1>2. /\ ws \in Seq(Partial) /\ ws # <<>> /\ plan'[p] = Tail(ws)
      /\ \A q \in Procs \ {p} : plan'[q] = plan[q]
  BY <1>1 DEF TypeOK
<1>3. f \in Touched(ws) <=> f \in DOMAIN Head(ws) \/ f \in Touched(Tail(ws))
  BY <1>2, TouchedTail
<1>4. \A q \in Procs : f \notin Touched(plan[q]) => f \notin Touched(plan'[q])
  BY <1>1, <1>2, <1>3, Zenon
<1>5. CASE settings[f] = promise[f] /\ \A q \in Procs : f \notin Touched(plan[q])
  <2>1. f \notin DOMAIN Head(plan[p])
    BY <1>1, <1>3, <1>5, Zenon
  <2>2. settings'[f] = promise'[f]
    BY <1>5, <2>1
  <2> QED
    BY <1>4, <1>5, <2>2, KeptAtRest
<1>6. ASSUME NEW o \in Procs, Brings(plan[o], f, promise[f]),
             \A q \in Procs \ {o} : f \notin Touched(plan[q])
      PROVE  Kept(f)'
  <2>1. \A q \in Procs \ {o} : f \notin Touched(plan'[q])
    BY <1>4, <1>6, Zenon
  <2>2. ASSUME Brings(plan'[o], f, promise'[f]) PROVE Kept(f)'
    BY <2>1, <2>2, KeptByPlan
  <2>3. CASE o # p
    <3>1. plan'[o] = plan[o]
      BY <1>2, <2>3
    <3>2. Brings(plan'[o], f, promise'[f])
      BY <1>6, <3>1, Zenon
    <3> QED
      BY <2>2, <3>2
  <2>4. CASE o = p
    <3>1. Brings(ws, f, promise[f])
      BY <1>1, <1>6, <2>4, Zenon
    <3>2. \/ Brings(Tail(ws), f, promise[f])
          \/ f \in DOMAIN Head(ws) /\ Head(ws)[f] = promise[f] /\ f \notin Touched(Tail(ws))
      BY <1>2, <3>1, BringsTail
    <3>3. CASE Brings(Tail(ws), f, promise[f])
      <4>1. Brings(plan'[o], f, promise'[f])
        BY <1>2, <2>4, <3>3, Zenon
      <4> QED
        BY <2>2, <4>1
    <3>4. CASE f \in DOMAIN Head(ws) /\ Head(ws)[f] = promise[f] /\ f \notin Touched(Tail(ws))
      <4>1. settings'[f] = promise'[f]
        BY <1>1, <3>4
      <4>2. \A q \in Procs : f \notin Touched(plan'[q])
        BY <1>2, <2>1, <2>4, <3>4, Zenon
      <4> QED
        BY <4>1, <4>2, KeptAtRest
    <3> QED
      BY <3>2, <3>3, <3>4
  <2> QED
    BY <2>3, <2>4
<1> QED
  BY <1>5, <1>6, Zenon DEF Kept

\* What a plan promises of fields nobody else is at it will bring about, and it
\* leaves the other promises alone.
LEMMA KeptWhenBegun ==
  ASSUME TypeOK, PromiseInv, NEW p \in Procs, plan[p] = <<>>, NEW ws \in Seq(Partial),
         NEW result \in Partial, Achieves(ws, result), Begin(p, ws, result),
         UNCHANGED <<settings, late>>
  PROVE  PromiseInv'
<1>1. /\ plan' = [plan EXCEPT ![p] = ws] /\ plan'[p] = ws
      /\ \A q \in Procs \ {p} : plan'[q] = plan[q]
  BY DEF Begin, TypeOK
<1>2. DOMAIN ws = 1 .. Len(ws)
  OBVIOUS
<1>3. \A f : f \in Touched(ws) => f \in DOMAIN result
  BY <1>2, Zenon DEF Achieves, Touched
<1>4. /\ \A f \in DOMAIN promise' : \/ f \in DOMAIN result /\ f \notin Pending
                                    \/ f \in DOMAIN promise /\ f \notin DOMAIN result
      /\ \A f \in DOMAIN promise' :
           promise'[f] = IF f \in DOMAIN result THEN result[f] ELSE promise[f]
  <2>1. PICK o, S : o = Over(result, promise) /\ S = DOMAIN result \intersect Pending
    OBVIOUS
  <2>2. promise' = Without(o, S)
    BY <2>1 DEF Begin
  <2>3. /\ DOMAIN o = DOMAIN result \union DOMAIN promise
        /\ \A f \in DOMAIN o : o[f] = IF f \in DOMAIN result THEN result[f] ELSE promise[f]
    BY <2>1 DEF Over
  <2>4. DOMAIN promise' = DOMAIN o \ S /\ \A f \in DOMAIN o \ S : promise'[f] = o[f]
    BY <2>2 DEF Without
  <2> QED
    BY ONLY <2>1, <2>3, <2>4
<1>5. ASSUME NEW f \in DOMAIN promise', f \in DOMAIN result, f \notin Pending
      PROVE  Kept(f)' /\ (f = "task" => \A v \in BOOLEAN : ~(late'[v] > 0))
  <2>1. Brings(ws, f, promise'[f])
    <3>1. promise'[f] = result[f]
      BY <1>4, <1>5
    <3> QED
      BY <1>5, <3>1, Zenon DEF Achieves
  <2>2. \A q \in Procs : f \notin Touched(plan[q])
    BY <1>5 DEF Pending
  <2>3. \A q \in Procs \ {p} : f \notin Touched(plan'[q])
    BY <1>1, <2>2, Zenon
  <2>4. Brings(plan'[p], f, promise'[f])
    BY <1>1, <2>1, Zenon
  <2>5. Kept(f)'
    BY <2>3, <2>4, KeptByPlan
  <2>6. f = "task" => \A v \in BOOLEAN : ~(late[v] > 0)
    BY <1>5 DEF Pending
  <2> QED
    BY <2>5, <2>6
<1>6. ASSUME NEW f \in DOMAIN promise', f \in DOMAIN promise, f \notin DOMAIN result
      PROVE  Kept(f)' /\ (f = "task" => \A v \in BOOLEAN : ~(late'[v] > 0))
  <2>1. Kept(f) /\ (f = "task" => \A v \in BOOLEAN : ~(late[v] > 0))
    BY <1>6 DEF PromiseInv
  <2>2. promise'[f] = promise[f]
    BY <1>4, <1>6
  <2>3. \A q \in Procs : f \notin Touched(plan[q]) => f \notin Touched(plan'[q])
    BY <1>1, <1>3, <1>6, Zenon
  <2>4. ASSUME settings[f] = promise[f], \A q \in Procs : f \notin Touched(plan[q])
        PROVE  Kept(f)'
    <3>1. settings'[f] = promise'[f] /\ \A q \in Procs : f \notin Touched(plan'[q])
      BY <2>2, <2>3, <2>4
    <3> QED
      BY <3>1, KeptAtRest
  <2>5. ASSUME NEW o \in Procs, Brings(plan[o], f, promise[f]),
               \A q \in Procs \ {o} : f \notin Touched(plan[q])
        PROVE  Kept(f)'
    <3>1. o # p
      BY <2>5 DEF Brings
    <3>2. plan'[o] = plan[o]
      BY <1>1, <3>1
    <3>3. Brings(plan'[o], f, promise'[f])
      BY <2>2, <2>5, <3>2, Zenon
    <3>4. \A q \in Procs \ {o} : f \notin Touched(plan'[q])
      BY <2>3, <2>5, Zenon
    <3> QED
      BY <3>3, <3>4, KeptByPlan
  <2>6. Kept(f)'
    BY <2>1, <2>4, <2>5, Zenon DEF Kept
  <2> QED
    BY <2>1, <2>6
<1> QED
  BY <1>4, <1>5, <1>6, Zenon DEF PromiseInv

\* w gives the fields of S, and no other, the value v.
IsWrite(w, S, v) == DOMAIN w = S /\ \A f \in S : w[f] = v

LEMMA ToWrites ==
  ASSUME NEW S, NEW v
  PROVE  IsWrite(To(S, v), S, v)
BY DEF IsWrite, To

LEMMA LinksAchieved ==
  ASSUME NEW v, NEW ws, Len(ws) = 1, IsWrite(ws[1], {"links"}, v),
         NEW r, IsWrite(r, {"links"}, v)
  PROVE  Achieves(ws, r)
BY DEF Achieves, Brings, IsWrite

LEMMA StartupAchieved ==
  ASSUME NEW v, NEW ws, Len(ws) = 3, IsWrite(ws[1], {"task"}, v),
         IsWrite(ws[2], {"run"}, v), IsWrite(ws[3], {"enabled"}, v),
         NEW r, IsWrite(r, Startup, v)
  PROVE  Achieves(ws, r)
BY DEF Achieves, Brings, IsWrite, Startup

LEMMA AnswerAchieved ==
  ASSUME NEW yes, NEW on, NEW ws, Len(ws) = 5, IsWrite(ws[1], {"shown"}, yes),
         IsWrite(ws[2], {"enabled"}, on), IsWrite(ws[3], {"task"}, on),
         IsWrite(ws[4], {"run"}, on), IsWrite(ws[5], {"enabled"}, on),
         NEW r, DOMAIN r = {"shown"} \union Startup, r["shown"] = yes,
         \A f \in Startup : r[f] = on
  PROVE  Achieves(ws, r)
<1>1. \A f \in DOMAIN r :
        \E i \in 1 .. 5 :
          /\ f \in DOMAIN ws[i] /\ ws[i][f] = r[f]
          /\ \A j \in i + 1 .. 5 : f \notin DOMAIN ws[j]
  BY DEF IsWrite, Startup
<1>2. \A i \in 1 .. 5 : DOMAIN ws[i] \subseteq DOMAIN r
  BY DEF IsWrite, Startup
<1> QED
  BY <1>1, <1>2 DEF Achieves, Brings

LEMMA AnswerAchievedLinks ==
  ASSUME NEW yes, NEW on, NEW ws, Len(ws) = 6, IsWrite(ws[1], {"shown"}, yes),
         IsWrite(ws[2], {"enabled"}, on), IsWrite(ws[3], {"task"}, on),
         IsWrite(ws[4], {"run"}, on), IsWrite(ws[5], {"enabled"}, on),
         IsWrite(ws[6], {"links"}, on),
         NEW r, DOMAIN r = {"shown", "links"} \union Startup, r["shown"] = yes,
         \A f \in Startup \union {"links"} : r[f] = on
  PROVE  Achieves(ws, r)
<1>1. \A f \in DOMAIN r :
        \E i \in 1 .. 6 :
          /\ f \in DOMAIN ws[i] /\ ws[i][f] = r[f]
          /\ \A j \in i + 1 .. 6 : f \notin DOMAIN ws[j]
  BY DEF IsWrite, Startup
<1>2. \A i \in 1 .. 6 : DOMAIN ws[i] \subseteq DOMAIN r
  BY DEF IsWrite, Startup
<1> QED
  BY <1>1, <1>2 DEF Achieves, Brings

LEMMA InstallAchieved ==
  ASSUME NEW yes, NEW on, NEW ws, Len(ws) = 4,
         IsWrite(ws[1], {"task"}, on), IsWrite(ws[2], {"run"}, on),
         IsWrite(ws[3], {"enabled"}, on), IsWrite(ws[4], {"key"}, yes),
         NEW r, DOMAIN r = {"key"} \union Startup, r["key"] = yes,
         \A f \in Startup : r[f] = on
  PROVE  Achieves(ws, r)
<1>1. ASSUME NEW f \in DOMAIN r
      PROVE  \E i \in 1 .. 4 :
               /\ f \in DOMAIN ws[i] /\ ws[i][f] = r[f]
               /\ \A j \in i + 1 .. 4 : f \notin DOMAIN ws[j]
  <2>1. CASE f \in {"key"}
    BY <2>1 DEF IsWrite
  <2>2. CASE f \in Startup
    BY <2>2 DEF IsWrite, Startup
  <2> QED
    BY <2>1, <2>2
<1>2. \A i \in 1 .. 4 : DOMAIN ws[i] \subseteq DOMAIN r
  BY DEF IsWrite, Startup
<1> QED
  BY <1>1, <1>2 DEF Achieves, Brings

LEMMA InstallAchievedLinks ==
  ASSUME NEW yes, NEW on, NEW ws, Len(ws) = 5,
         IsWrite(ws[1], {"links"}, yes), IsWrite(ws[2], {"task"}, on),
         IsWrite(ws[3], {"run"}, on), IsWrite(ws[4], {"enabled"}, on),
         IsWrite(ws[5], {"key"}, yes),
         NEW r, DOMAIN r = {"key", "links"} \union Startup, r["key"] = yes,
         r["links"] = yes, \A f \in Startup : r[f] = on
  PROVE  Achieves(ws, r)
<1>1. ASSUME NEW f \in DOMAIN r
      PROVE  \E i \in 1 .. 5 :
               /\ f \in DOMAIN ws[i] /\ ws[i][f] = r[f]
               /\ \A j \in i + 1 .. 5 : f \notin DOMAIN ws[j]
  <2>1. CASE f \in {"key", "links"}
    BY <2>1 DEF IsWrite
  <2>2. CASE f \in Startup
    BY <2>2 DEF IsWrite, Startup
  <2> QED
    BY <2>1, <2>2
<1>2. \A i \in 1 .. 5 : DOMAIN ws[i] \subseteq DOMAIN r
  BY DEF IsWrite, Startup
<1> QED
  BY <1>1, <1>2 DEF Achieves, Brings

LEMMA UninstallAchieved ==
  ASSUME NEW no, NEW ws, Len(ws) = 6,
         IsWrite(ws[1], {"task"}, no), IsWrite(ws[2], {"run"}, no),
         IsWrite(ws[3], {"enabled"}, no), IsWrite(ws[4], {"links"}, no),
         IsWrite(ws[5], {"key"}, no), IsWrite(ws[6], {"enabled", "shown"}, no),
         NEW r, IsWrite(r, Fields, no)
  PROVE  Achieves(ws, r)
<1>1. \A i \in 1 .. 6 : \A f \in DOMAIN ws[i] : ws[i][f] = no
  BY DEF IsWrite
<1>2. ASSUME NEW f \in DOMAIN r
      PROVE  \E i \in 1 .. 6 :
               f \in DOMAIN ws[i] /\ \A j \in i + 1 .. 6 : f \notin DOMAIN ws[j]
  <2>1. f \in {"task", "run", "enabled", "links", "key", "shown"}
    BY DEF Fields, IsWrite
  <2> QED
    BY <2>1 DEF IsWrite
<1>3. \A i \in 1 .. 6 : DOMAIN ws[i] \subseteq DOMAIN r
  BY DEF IsWrite, Fields
<1>4. \A f \in DOMAIN r : r[f] = no
  BY DEF IsWrite
<1> QED
  BY <1>1, <1>2, <1>3, <1>4 DEF Achieves, Brings

\* What the operations plan brings about what they promise.
LEMMA LinksAchieves == Achieves(<<To({"links"}, TRUE)>>, To({"links"}, TRUE))
<1>1. PICK yes, a : yes = TRUE /\ a = To({"links"}, yes)
  OBVIOUS
<1>2. IsWrite(a, {"links"}, yes)
  BY <1>1, ToWrites, Zenon
<1>3. Len(<<a>>) = 1 /\ <<a>>[1] = a
  OBVIOUS
<1>4. IsWrite(<<a>>[1], {"links"}, yes)
  BY <1>2, <1>3, Zenon
<1>5. Achieves(<<a>>, a)
  BY <1>2, <1>3, <1>4, LinksAchieved, Zenon
<1> QED
  BY <1>1, <1>5, Zenon

LEMMA StartupAchieves ==
  ASSUME NEW on
  PROVE  Achieves(set_startup(on), To(Startup, on))
<1>1. PICK a, b, c, r, ws :
        /\ a = To({"task"}, on) /\ b = To({"run"}, on) /\ c = To({"enabled"}, on)
        /\ r = To(Startup, on) /\ ws = set_startup(on)
  OBVIOUS
<1>2. ws = <<a, b, c>>
  BY <1>1, Zenon DEF set_startup
<1>3. Len(ws) = 3 /\ ws[1] = a /\ ws[2] = b /\ ws[3] = c
  BY ONLY <1>2
<1>4. /\ IsWrite(ws[1], {"task"}, on) /\ IsWrite(ws[2], {"run"}, on)
      /\ IsWrite(ws[3], {"enabled"}, on) /\ IsWrite(r, Startup, on)
  BY <1>1, <1>3, ToWrites, Zenon
<1>5. Achieves(ws, r)
  BY <1>3, <1>4, StartupAchieved, Zenon
<1> QED
  BY <1>1, <1>5, Zenon

LEMMA AnswerAchieves ==
  ASSUME NEW on \in BOOLEAN
  PROVE  Achieves(answer(on),
                  Over(To({"shown"}, TRUE),
                       To(IF on THEN Startup \union {"links"} ELSE Startup, on)))
<1>1. CASE on = TRUE
  <2>1. PICK yes, a, b, c, d, e, f, p, q, r, ws :
          /\ yes = TRUE /\ on = yes
          /\ a = To({"shown"}, yes) /\ b = To({"enabled"}, yes)
          /\ c = To({"task"}, yes) /\ d = To({"run"}, yes) /\ e = To({"enabled"}, yes)
          /\ f = To({"links"}, yes) /\ ws = answer(yes)
          /\ p = To({"shown"}, yes) /\ q = To(Startup \union {"links"}, yes)
          /\ r = Over(p, q)
    BY <1>1
  <2>2. ws = (<<a, b>> \o <<c, d, e>>) \o <<f>>
    BY <2>1, Zenon DEF answer, set_startup
  <2>3. Len(ws) = 6 /\ ws[1] = a /\ ws[2] = b /\ ws[3] = c /\ ws[4] = d /\ ws[5] = e
        /\ ws[6] = f
    BY ONLY <2>2
  <2>4. /\ IsWrite(ws[1], {"shown"}, yes) /\ IsWrite(ws[2], {"enabled"}, yes)
        /\ IsWrite(ws[3], {"task"}, yes) /\ IsWrite(ws[4], {"run"}, yes)
        /\ IsWrite(ws[5], {"enabled"}, yes) /\ IsWrite(ws[6], {"links"}, yes)
        /\ IsWrite(p, {"shown"}, yes) /\ IsWrite(q, Startup \union {"links"}, yes)
    BY <2>1, <2>3, ToWrites, Zenon
  <2>5. r = [g \in DOMAIN p \union DOMAIN q |-> IF g \in DOMAIN p THEN p[g] ELSE q[g]]
    BY <2>1, Zenon DEF Over
  <2>6. /\ DOMAIN r = {"shown", "links"} \union Startup /\ r["shown"] = yes
        /\ \A g \in Startup \union {"links"} : r[g] = yes
    BY ONLY <2>4, <2>5 DEF IsWrite, Startup
  <2>8. Achieves(ws, r)
    BY <2>3, <2>4, <2>6, AnswerAchievedLinks, Zenon
  <2> QED
    BY <2>1, <2>8, Zenon
<1>2. CASE on = FALSE
  <2>1. PICK yes, no, a, b, c, d, e, p, q, r, ws :
          /\ yes = TRUE /\ no = FALSE /\ on = no
          /\ a = To({"shown"}, yes) /\ b = To({"enabled"}, no)
          /\ c = To({"task"}, no) /\ d = To({"run"}, no) /\ e = To({"enabled"}, no)
          /\ ws = answer(no) /\ p = To({"shown"}, yes) /\ q = To(Startup, no)
          /\ r = Over(p, q)
    BY <1>2
  <2>2. ws = (<<a, b>> \o <<c, d, e>>) \o <<>>
    BY <2>1, Zenon DEF answer, set_startup
  <2>3. Len(ws) = 5 /\ ws[1] = a /\ ws[2] = b /\ ws[3] = c /\ ws[4] = d /\ ws[5] = e
    BY ONLY <2>2
  <2>4. /\ IsWrite(ws[1], {"shown"}, yes) /\ IsWrite(ws[2], {"enabled"}, no)
        /\ IsWrite(ws[3], {"task"}, no) /\ IsWrite(ws[4], {"run"}, no)
        /\ IsWrite(ws[5], {"enabled"}, no)
        /\ IsWrite(p, {"shown"}, yes) /\ IsWrite(q, Startup, no)
    BY <2>1, <2>3, ToWrites, Zenon
  <2>5. r = [g \in DOMAIN p \union DOMAIN q |-> IF g \in DOMAIN p THEN p[g] ELSE q[g]]
    BY <2>1, Zenon DEF Over
  <2>6. /\ DOMAIN r = {"shown"} \union Startup /\ r["shown"] = yes
        /\ \A g \in Startup : r[g] = no
    BY ONLY <2>4, <2>5 DEF IsWrite, Startup
  <2>8. Achieves(ws, r)
    BY <2>3, <2>4, <2>6, AnswerAchieved, Zenon
  <2> QED
    BY <2>1, <2>8, Zenon
<1> QED
  BY <1>1, <1>2

LEMMA InstallAchieves ==
  ASSUME NEW on \in BOOLEAN, NEW links \in BOOLEAN
  PROVE  Achieves(install(on, links),
                  Over(To({"key"}, TRUE),
                       Over(To(Startup, on), To(IF links THEN {"links"} ELSE {}, TRUE))))
<1>1. CASE links = TRUE
  <2>1. PICK yes, a, b, c, d, e, p, q, o, s, r, ws :
          /\ yes = TRUE /\ links = yes
          /\ a = To({"links"}, yes)
          /\ b = To({"task"}, on) /\ c = To({"run"}, on) /\ d = To({"enabled"}, on)
          /\ e = To({"key"}, yes) /\ ws = install(on, yes)
          /\ p = To({"key"}, yes) /\ q = To(Startup, on) /\ o = To({"links"}, yes)
          /\ s = Over(q, o) /\ r = Over(p, s)
    BY <1>1
  <2>2. ws = (<<a>> \o <<b, c, d>>) \o <<e>>
    BY <2>1, Zenon DEF install, set_startup
  <2>3. Len(ws) = 5 /\ ws[1] = a /\ ws[2] = b /\ ws[3] = c /\ ws[4] = d /\ ws[5] = e
    BY ONLY <2>2
  <2>4. /\ IsWrite(ws[1], {"links"}, yes) /\ IsWrite(ws[2], {"task"}, on)
        /\ IsWrite(ws[3], {"run"}, on) /\ IsWrite(ws[4], {"enabled"}, on)
        /\ IsWrite(ws[5], {"key"}, yes) /\ IsWrite(p, {"key"}, yes)
        /\ IsWrite(q, Startup, on) /\ IsWrite(o, {"links"}, yes)
    BY <2>1, <2>3, ToWrites, Zenon
  <2>5. r = [f \in DOMAIN p \union DOMAIN s |-> IF f \in DOMAIN p THEN p[f] ELSE s[f]]
        /\ s = [f \in DOMAIN q \union DOMAIN o |-> IF f \in DOMAIN q THEN q[f] ELSE o[f]]
    BY <2>1, Zenon DEF Over
  <2>6. /\ DOMAIN r = {"key", "links"} \union Startup
        /\ r["key"] = yes /\ r["links"] = yes /\ \A f \in Startup : r[f] = on
    BY ONLY <2>4, <2>5 DEF IsWrite, Startup
  <2>7. yes # FALSE
    BY <2>1, Zenon
  <2>8. Achieves(ws, r)
    BY ONLY <2>3, <2>4, <2>6, <2>7, on \in BOOLEAN, InstallAchievedLinks, Zenon
  <2>9. /\ ws = install(on, TRUE)
        /\ r = Over(To({"key"}, TRUE), Over(To(Startup, on), To({"links"}, TRUE)))
    BY ONLY <2>1
  <2> QED
    BY ONLY <1>1, <2>8, <2>9
<1>2. CASE links = FALSE
  <2>1. PICK yes, no, b, c, d, e, p, q, o, s, r, ws :
          /\ yes = TRUE /\ no = FALSE /\ links = no
          /\ b = To({"task"}, on) /\ c = To({"run"}, on) /\ d = To({"enabled"}, on)
          /\ e = To({"key"}, yes) /\ ws = install(on, no)
          /\ p = To({"key"}, yes) /\ q = To(Startup, on) /\ o = To({}, yes)
          /\ s = Over(q, o) /\ r = Over(p, s)
    BY <1>2
  <2>2. ws = (<<>> \o <<b, c, d>>) \o <<e>>
    BY <2>1, Zenon DEF install, set_startup
  <2>3. Len(ws) = 4 /\ ws[1] = b /\ ws[2] = c /\ ws[3] = d /\ ws[4] = e
    BY ONLY <2>2
  <2>4. /\ IsWrite(ws[1], {"task"}, on) /\ IsWrite(ws[2], {"run"}, on)
        /\ IsWrite(ws[3], {"enabled"}, on) /\ IsWrite(ws[4], {"key"}, yes)
    BY <2>1, <2>3, ToWrites, Zenon
  <2>5. /\ IsWrite(p, {"key"}, yes) /\ IsWrite(q, Startup, on) /\ IsWrite(o, {}, yes)
    BY <2>1, ToWrites, Zenon
  <2>6. r = [f \in DOMAIN p \union DOMAIN s |-> IF f \in DOMAIN p THEN p[f] ELSE s[f]]
        /\ s = [f \in DOMAIN q \union DOMAIN o |-> IF f \in DOMAIN q THEN q[f] ELSE o[f]]
    BY <2>1, Zenon DEF Over
  <2>7. /\ DOMAIN r = {"key"} \union Startup
        /\ r["key"] = yes /\ \A f \in Startup : r[f] = on
    BY ONLY <2>5, <2>6 DEF IsWrite, Startup
  <2>9. Achieves(ws, r)
    BY ONLY <2>3, <2>4, <2>7, InstallAchieved, Zenon
  <2>10. /\ ws = install(on, FALSE)
         /\ r = Over(To({"key"}, TRUE), Over(To(Startup, on), To({}, TRUE)))
    BY ONLY <2>1
  <2> QED
    BY ONLY <1>2, <2>9, <2>10
<1> QED
  BY <1>1, <1>2

LEMMA UninstallAchieves == Achieves(uninstall, To(Fields, FALSE))
<1>1. PICK no, a, b, c, d, e, f, r, ws :
        /\ no = FALSE
        /\ a = To({"task"}, no) /\ b = To({"run"}, no) /\ c = To({"enabled"}, no)
        /\ d = To({"links"}, no) /\ e = To({"key"}, no)
        /\ f = To({"enabled", "shown"}, no) /\ r = To(Fields, no) /\ ws = uninstall
  OBVIOUS
<1>2. ws = <<a, b, c>> \o <<d, e, f>>
  BY <1>1, Zenon DEF uninstall, set_startup
<1>3. Len(ws) = 6 /\ ws[1] = a /\ ws[2] = b /\ ws[3] = c /\ ws[4] = d /\ ws[5] = e
      /\ ws[6] = f
  BY ONLY <1>2
<1>4. /\ IsWrite(ws[1], {"task"}, no) /\ IsWrite(ws[2], {"run"}, no)
      /\ IsWrite(ws[3], {"enabled"}, no) /\ IsWrite(ws[4], {"links"}, no)
      /\ IsWrite(ws[5], {"key"}, no) /\ IsWrite(ws[6], {"enabled", "shown"}, no)
      /\ IsWrite(r, Fields, no)
  BY <1>1, <1>3, ToWrites, Zenon
<1>5. Achieves(ws, r)
  BY <1>1, <1>3, <1>4, UninstallAchieved, Zenon
<1> QED
  BY <1>1, <1>5, Zenon

\* A process begins such a plan, others leave everything as it is ...
LEMMA PromiseBegun ==
  ASSUME TypeOK, PromiseInv, UNCHANGED <<settings, late>>,
         \/ \E d \in Daemons :
              plan[d] = <<>> /\ Begin(d, <<To({"links"}, TRUE)>>, To({"links"}, TRUE))
         \/ \E d \in Daemons, on \in BOOLEAN :
              plan[d] = <<>> /\ Begin(d, set_startup(on), To(Startup, on))
         \/ \E d \in Daemons, yes \in BOOLEAN :
              /\ plan[d] = <<>>
              /\ Begin(d, answer(yes),
                       Over(To({"shown"}, TRUE),
                            To(IF yes THEN Startup \union {"links"} ELSE Startup, yes)))
         \/ \E on, links \in BOOLEAN :
              /\ plan["setup"] = <<>>
              /\ Begin("setup", install(on, links),
                       Over(To({"key"}, TRUE),
                            Over(To(Startup, on), To(IF links THEN {"links"} ELSE {}, TRUE))))
         \/ plan["setup"] = <<>> /\ Begin("setup", uninstall, To(Fields, FALSE))
  PROVE  PromiseInv'
<1>0. /\ Startup \subseteq Fields /\ "links" \in Fields /\ "shown" \in Fields
      /\ "key" \in Fields
  BY DEF Startup, Fields
<1>1. ASSUME NEW d \in Daemons, plan[d] = <<>>, Begin(d, <<To({"links"}, TRUE)>>, To({"links"}, TRUE))
      PROVE  PromiseInv'
  <2>1. To({"links"}, TRUE) \in Partial
    BY <1>0, ToIsPartial
  <2>2. \A w \in Partial : <<w>> \in Seq(Partial)
    OBVIOUS
  <2>3. <<To({"links"}, TRUE)>> \in Seq(Partial)
    BY <2>1, <2>2, Zenon
  <2>4. d \in Procs
    BY DEF Procs
  <2> QED
    BY <1>1, <2>1, <2>3, <2>4, LinksAchieves, KeptWhenBegun, Zenon
<1>2. ASSUME NEW d \in Daemons, NEW on \in BOOLEAN, plan[d] = <<>>,
             Begin(d, set_startup(on), To(Startup, on))
      PROVE  PromiseInv'
  <2>1. To(Startup, on) \in Partial
    BY <1>0, ToIsPartial
  <2>2. d \in Procs /\ set_startup(on) \in Seq(Partial)
    BY PlansAreWrites DEF Procs
  <2> QED
    BY <1>2, <2>1, <2>2, StartupAchieves, KeptWhenBegun, Zenon
<1>3. ASSUME NEW d \in Daemons, NEW yes \in BOOLEAN, plan[d] = <<>>,
             Begin(d, answer(yes),
                   Over(To({"shown"}, TRUE),
                        To(IF yes THEN Startup \union {"links"} ELSE Startup, yes)))
      PROVE  PromiseInv'
  <2>1. /\ To({"shown"}, TRUE) \in Partial
        /\ To(IF yes THEN Startup \union {"links"} ELSE Startup, yes) \in Partial
    BY <1>0, ToIsPartial
  <2>2. d \in Procs /\ answer(yes) \in Seq(Partial)
    BY PlansAreWrites DEF Procs
  <2>3. Over(To({"shown"}, TRUE),
             To(IF yes THEN Startup \union {"links"} ELSE Startup, yes)) \in Partial
    BY <2>1, OverIsPartial
  <2> QED
    BY <1>3, <2>2, <2>3, AnswerAchieves, KeptWhenBegun, Zenon
<1>4. ASSUME NEW on \in BOOLEAN, NEW links \in BOOLEAN, plan["setup"] = <<>>,
             Begin("setup", install(on, links),
                   Over(To({"key"}, TRUE),
                        Over(To(Startup, on), To(IF links THEN {"links"} ELSE {}, TRUE))))
      PROVE  PromiseInv'
  <2>1. /\ To({"key"}, TRUE) \in Partial /\ To(Startup, on) \in Partial
        /\ To(IF links THEN {"links"} ELSE {}, TRUE) \in Partial
    BY <1>0, ToIsPartial
  <2>2. "setup" \in Procs /\ install(on, links) \in Seq(Partial)
    BY PlansAreWrites DEF Procs
  <2>3. Over(To({"key"}, TRUE),
             Over(To(Startup, on), To(IF links THEN {"links"} ELSE {}, TRUE))) \in Partial
    BY <2>1, OverIsPartial
  <2> QED
    BY <1>4, <2>2, <2>3, InstallAchieves, KeptWhenBegun, Zenon
<1>5. ASSUME plan["setup"] = <<>>, Begin("setup", uninstall, To(Fields, FALSE))
      PROVE  PromiseInv'
  <2>1. To(Fields, FALSE) \in Partial
    BY ToIsPartial
  <2>2. "setup" \in Procs /\ uninstall \in Seq(Partial)
    BY PlansAreWrites DEF Procs
  <2> QED
    BY <1>5, <2>1, <2>2, UninstallAchieves, KeptWhenBegun, Zenon
<1> QED
  BY <1>1, <1>2, <1>3, <1>4, <1>5, Zenon

\* ... or carries on with it: what has been promised is there once nobody is at it.
LEMMA PromiseIsKept == ASSUME TypeOK, PromiseInv PROVE PromiseKept
<1> SUFFICES ASSUME NEW f \in DOMAIN promise, f \notin Pending
             PROVE  settings[f] = promise[f]
  BY DEF PromiseKept
<1>1. \A p \in Procs : f \notin Touched(plan[p])
  BY DEF Pending
<1>2. ASSUME NEW p \in Procs PROVE ~Brings(plan[p], f, promise[f])
  <2>1. plan[p] \in Seq(Partial)
    BY DEF TypeOK
  <2> QED
    BY <1>1, <2>1, BringsTouches
<1> QED
  BY <1>2 DEF PromiseInv, Kept

LEMMA PromiseStep == TypeOK /\ BusyPlans /\ PromiseInv /\ [Next]_vars => PromiseInv'
<1> SUFFICES ASSUME TypeOK, BusyPlans, PromiseInv, [Next]_vars PROVE PromiseInv'
  OBVIOUS
<1>0. \A S : /\ DOMAIN Without(promise, S) = DOMAIN promise \ S
             /\ \A f \in DOMAIN promise \ S : Without(promise, S)[f] = promise[f]
  BY WithoutIsPartial DEF TypeOK
\* It is enough that no promise is made, and those that are left are kept.
<1>1. ASSUME NEW S, promise' = Without(promise, S),
             "task" \in S \/ late' = late \/ \A v \in BOOLEAN : ~(late'[v] > 0),
             \A f \in DOMAIN promise \ S : promise'[f] = promise[f] => Kept(f)'
      PROVE  PromiseInv'
  <2>1. /\ DOMAIN promise' = DOMAIN promise \ S
        /\ \A f \in DOMAIN promise' : promise'[f] = promise[f]
    BY <1>0, <1>1
  <2>2. \A f \in DOMAIN promise' : Kept(f)'
    BY <1>1, <2>1, Zenon
  <2>3. "task" \in DOMAIN promise' => \A v \in BOOLEAN : ~(late'[v] > 0)
    BY <1>1, <2>1 DEF PromiseInv
  <2> QED
    BY <2>2, <2>3, Zenon DEF PromiseInv
<1>2. promise = Without(promise, {})
  BY DEF Without, TypeOK, Partial
<1>3. ASSUME UNCHANGED <<settings, late, plan, promise>> PROVE PromiseInv'
  <2>1. \A f \in DOMAIN promise : Kept(f)'
    BY <1>3, KeptAsItWas DEF PromiseInv
  <2>2. promise' = Without(promise, {})
    BY <1>2, <1>3
  <2> QED
    BY <1>1, <1>3, <2>1, <2>2
<1>4. ASSUME NEW p \in Procs, Write(p) PROVE PromiseInv'
  <2>1. /\ plan[p] # <<>> /\ plan' = [plan EXCEPT ![p] = Tail(@)]
        /\ settings' = Over(Head(plan[p]), settings) /\ late' = late
        /\ promise' = Without(promise, {})
    BY <1>2, <1>4 DEF Write
  <2>2. Head(plan[p]) \in Partial /\ settings \in [Fields -> BOOLEAN]
    BY <2>1 DEF TypeOK
  <2>3. DOMAIN promise \subseteq Fields
    BY DEF TypeOK, Partial
  <2>4. ASSUME NEW f \in DOMAIN promise, promise'[f] = promise[f] PROVE Kept(f)'
    <3>1. Kept(f)
      BY DEF PromiseInv
    <3>2. /\ f \in DOMAIN Head(plan[p]) => settings'[f] = Head(plan[p])[f]
          /\ f \notin DOMAIN Head(plan[p]) => settings'[f] = settings[f]
      BY <2>1, <2>2, <2>3, OverKeepsFields
    <3> QED
      BY <2>1, <2>4, <3>1, <3>2, KeptAfterCall
  <2> QED
    BY <1>1, <2>1, <2>4
<1>5. ASSUME NEW p \in Procs, WriteFails(p) \/ WaitTimesOut(p) PROVE PromiseInv'
  <2>1. PICK S : /\ S = DOMAIN Head(plan[p])
                 /\ promise' = Without(promise, S)
                 /\ late' = late \/ "task" \in S
    BY <1>5 DEF WriteFails, WaitTimesOut
  <2>2. /\ plan[p] # <<>> /\ plan' = [plan EXCEPT ![p] = Tail(@)]
        /\ settings' = settings
    BY <1>5 DEF WriteFails, WaitTimesOut
  <2>3. ASSUME NEW f \in DOMAIN promise \ S, promise'[f] = promise[f] PROVE Kept(f)'
    <3>1. Kept(f)
      BY DEF PromiseInv
    <3> QED
      BY <2>1, <2>2, <2>3, <3>1, KeptAfterCall
  <2> QED
    BY <1>1, <2>1, <2>3
<1>6. ASSUME NEW v \in BOOLEAN, LateTask(v) PROVE PromiseInv'
  <2>1. "task" \notin DOMAIN promise
    BY <1>6 DEF LateTask, PromiseInv
  <2>2. /\ \A f \in DOMAIN promise : settings'[f] = settings[f]
        /\ plan' = plan /\ promise' = promise
    <3>1. DOMAIN promise \subseteq Fields
      BY DEF TypeOK, Partial
    <3> QED
      BY <1>6, <2>1, <3>1 DEF LateTask, TypeOK
  <2>3. \A f \in DOMAIN promise' : Kept(f)'
    BY <2>2, KeptAsItWas DEF PromiseInv
  <2> QED
    BY <2>1, <2>2, <2>3, Zenon DEF PromiseInv
<1>7. CASE RemoveThrows
  <2>1. PICK S : S = Touched(plan["setup"]) /\ promise' = Without(promise, S)
    BY <1>7 DEF RemoveThrows
  <2>2. /\ plan' = [plan EXCEPT !["setup"] = <<>>] /\ settings' = settings /\ late' = late
    BY <1>7 DEF RemoveThrows
  <2>3. /\ plan'["setup"] = <<>> /\ \A q \in Procs \ {"setup"} : plan'[q] = plan[q]
        /\ \A f : f \notin Touched(<<>>)
    BY <2>2 DEF TypeOK, Procs, Touched
  <2>4. ASSUME NEW f \in DOMAIN promise \ S, promise'[f] = promise[f] PROVE Kept(f)'
    <3>1. \A q \in Procs : f \notin Touched(plan[q]) => f \notin Touched(plan'[q])
      BY <2>3, Zenon
    <3>2. CASE settings[f] = promise[f] /\ \A q \in Procs : f \notin Touched(plan[q])
      <4>1. settings'[f] = promise'[f]
        BY <2>2, <2>4, <3>2
      <4> QED
        BY <3>1, <3>2, <4>1, KeptAtRest
    <3>3. ASSUME NEW o \in Procs, Brings(plan[o], f, promise[f]),
                 \A q \in Procs \ {o} : f \notin Touched(plan[q])
          PROVE  Kept(f)'
      <4>1. plan[o] \in Seq(Partial)
        BY DEF TypeOK
      <4>2. f \in Touched(plan[o])
        BY <3>3, <4>1, BringsTouches
      <4>3. o # "setup"
        BY <2>1, <4>2
      <4>4. plan'[o] = plan[o]
        BY <2>3, <4>3
      <4>5. Brings(plan'[o], f, promise'[f])
        BY <2>4, <3>3, <4>4, Zenon
      <4>6. \A q \in Procs \ {o} : f \notin Touched(plan'[q])
        BY <3>1, <3>3, Zenon
      <4> QED
        BY <4>5, <4>6, KeptByPlan
    <3> QED
      BY <3>2, <3>3, Zenon DEF PromiseInv, Kept
  <2> QED
    BY <1>1, <2>1, <2>2, <2>4
<1>8. ASSUME NEW d \in Daemons,
             FirstInstance(d) \/ ToggleStartup(d) \/ \E yes \in BOOLEAN : Answer(d, yes)
      PROVE  PromiseInv'
  <2>0. plan[d] = <<>>
    <3>1. pc[d] \in {"boot", "menu", "ask"}
      BY <1>8 DEF FirstInstance, ToggleStartup, Answer
    <3>2. d \in Procs /\ d # "setup"
      BY DaemonsAssumption DEF Procs
    <3> QED
      BY <3>1, <3>2 DEF BusyPlans, AtWork
  <2>1. CASE FirstInstance(d)
    BY <2>0, <2>1, PromiseBegun DEF FirstInstance
  <2>2. CASE ToggleStartup(d)
    <3>1. PICK on \in BOOLEAN : on = ~offered[d]
      OBVIOUS
    <3>2. UNCHANGED <<settings, late>> /\ Begin(d, set_startup(on), To(Startup, on))
      BY <2>2, <3>1, Zenon DEF ToggleStartup
    <3> QED
      BY <2>0, <3>2, PromiseBegun, Zenon
  <2>3. CASE \E yes \in BOOLEAN : Answer(d, yes)
    BY <2>0, <2>3, PromiseBegun DEF Answer
  <2> QED
    BY <1>8, <2>1, <2>2, <2>3
<1>9. ASSUME (\E on, links \in BOOLEAN : Configure(on, links)) \/ Uninstall
      PROVE  PromiseInv'
  <2>1. plan["setup"] = <<>>
    BY <1>9, DaemonsAssumption DEF Configure, Uninstall, BusyPlans, AtWork, Procs
  <2> QED
    BY <1>9, <2>1, PromiseBegun DEF Configure, Uninstall
<1>10. CASE Logon
  <2>1. PICK S : S = Pending /\ promise' = Without(promise, S)
    BY <1>10 DEF Logon
  <2>2. /\ settings' = settings /\ \A v \in BOOLEAN : ~(late'[v] > 0)
        /\ \A p \in Procs : plan'[p] = <<>>
    BY <1>10 DEF Logon
  <2>3. \A f : f \notin Touched(<<>>)
    BY DEF Touched
  <2>4. ASSUME NEW f \in DOMAIN promise \ S, promise'[f] = promise[f] PROVE Kept(f)'
    <3>1. settings'[f] = promise'[f]
      BY <2>1, <2>2, <2>4, PromiseIsKept DEF PromiseKept
    <3>2. \A p \in Procs : f \notin Touched(plan'[p])
      BY <2>2, <2>3, Zenon
    <3> QED
      BY <3>1, <3>2, KeptAtRest
  <2> QED
    BY <1>1, <2>1, <2>2, <2>4
<1>11. ASSUME NEW d \in Daemons,
              \/ StartByHand(d) \/ StartAtLogon(d) \/ AlreadyRunning(d) \/ DismissBox(d)
              \/ Booted(d) \/ NoWindow(d) \/ Settled(d) \/ OpenMenu(d) \/ DismissMenu(d)
              \/ Leave(d)
       PROVE  PromiseInv'
  BY <1>3, <1>11 DEF StartByHand, StartAtLogon, AlreadyRunning, DismissBox, Booted,
                     NoWindow, Settled, OpenMenu, DismissMenu, Leave
<1>12. CASE \/ StartInstall \/ Copied \/ CopySkipped \/ CopyThrows \/ Installed
            \/ StartUninstall \/ Uninstalled
  BY <1>3, <1>12 DEF StartInstall, Copied, CopySkipped, CopyThrows, Installed,
                     StartUninstall, Uninstalled
<1>13. CASE UNCHANGED vars
  BY <1>3, <1>13
<1> QED
  BY <1>4, <1>5, <1>6, <1>7, <1>8, <1>9, <1>10, <1>11, <1>12, <1>13 DEF Next, DaemonStep

LEMMA InitPromise == Init => BusyPlans /\ PromiseInv
<1> SUFFICES ASSUME Init PROVE BusyPlans /\ PromiseInv
  OBVIOUS
<1>1. /\ \A p \in Procs : plan[p] = <<>>
      /\ \A v \in BOOLEAN : ~(late[v] > 0)
      /\ promise = settings
  BY DEF Init
<1>2. \A p \in Procs, f \in DOMAIN promise : f \notin Touched(plan[p])
  BY <1>1 DEF Touched
<1> QED
  BY <1>1, <1>2 DEF BusyPlans, PromiseInv, Kept
-----------------------------------------------------------------------------
\* Who is past the mutex has a handle to it and is alone there, unless some daemon
\* could not get at it.
Owner ==
  "unguarded" \notin since =>
    \A d \in Daemons : pc[d] \in PastMutex =>
      d \in holders /\ \A e \in Daemons : pc[e] \in PastMutex => e = d

SaysShown(w) == "shown" \in DOMAIN w /\ w["shown"]
Silent(ws) == \A i \in DOMAIN ws : ~SaysShown(ws[i])

\* Only a daemon that has its answer is about to note that it asked.
ShownByAnswer ==
  \A p \in Procs : Silent(plan[p]) \/ (p \in Daemons /\ pc[p] = "answer")

AskInv == Owner /\ ShownByAnswer /\ AskedOnce

LEMMA OwnerStep == TypeOK /\ Owner /\ [Next]_vars => Owner'
<1> SUFFICES ASSUME TypeOK, Owner, [Next]_vars PROVE Owner'
  OBVIOUS
<1>1. ASSUME NEW d \in Daemons, FirstInstance(d) PROVE Owner'
  <2>1. CASE holders = {} /\ holders' = {d} /\ since' = since
    <3>1. pc' = [pc EXCEPT ![d] = "links"]
      BY <1>1 DEF FirstInstance
    <3> QED
      BY <2>1, <3>1 DEF TypeOK, Owner
  <2>2. CASE since' = since \union {"unguarded"}
    BY <2>2 DEF Owner
  <2> QED
    BY <1>1, <2>1, <2>2 DEF FirstInstance
<1>2. ASSUME NEW d \in Daemons, Leave(d) \/ DismissBox(d) \/ NoWindow(d) PROVE Owner'
  <2>1. /\ pc' = [pc EXCEPT ![d] = "off"] /\ holders' = holders \ {d}
        /\ "unguarded" \in since => "unguarded" \in since'
    BY <1>2 DEF Leave, DismissBox, NoWindow
  <2>2. \A e \in Daemons : pc'[e] \in PastMutex => e # d /\ pc[e] \in PastMutex
    BY <2>1 DEF TypeOK, PastMutex
  <2> QED
    BY <2>1, <2>2 DEF Owner
<1>3. ASSUME NEW d \in Daemons,
             \/ StartByHand(d) \/ StartAtLogon(d) \/ AlreadyRunning(d) \/ Booted(d)
             \/ Settled(d) \/ OpenMenu(d) \/ ToggleStartup(d) \/ DismissMenu(d)
             \/ \E yes \in BOOLEAN : Answer(d, yes)
      PROVE  Owner'
  <2>1. /\ holders \subseteq holders'
        /\ "unguarded" \in since => "unguarded" \in since'
    BY <1>3 DEF StartByHand, StartAtLogon, StartDaemon, AlreadyRunning, Booted, Settled,
                OpenMenu, ToggleStartup, DismissMenu, Answer
  <2>2. \A e \in Daemons : pc'[e] \in PastMutex => pc[e] \in PastMutex
    BY <1>3 DEF StartByHand, StartAtLogon, StartDaemon, AlreadyRunning, Booted, Settled,
                OpenMenu, ToggleStartup, DismissMenu, Answer, TypeOK, PastMutex
  <2> QED
    BY <2>1, <2>2 DEF Owner
<1>4. CASE Installed
  <2>1. /\ holders' = holders /\ since' = since
        /\ \A e \in Daemons : pc'[e] \in PastMutex => pc[e] \in PastMutex
    BY <1>4 DEF Installed, StartDaemon, TypeOK, PastMutex
  <2> QED
    BY <2>1 DEF Owner
<1>5. CASE Logon
  BY <1>5 DEF Logon, Owner, PastMutex
<1>6. ASSUME UNCHANGED <<pc, holders, since>> PROVE Owner'
  BY <1>6 DEF Owner
<1>7. ASSUME NEW p \in Procs,
             Write(p) \/ WriteFails(p) \/ WaitTimesOut(p) \/ RemoveThrows
      PROVE  Owner'
  BY <1>6, <1>7 DEF Write, WriteFails, WaitTimesOut, RemoveThrows
<1>8. CASE \/ \E v \in BOOLEAN : LateTask(v)
           \/ StartInstall \/ Copied \/ CopySkipped \/ CopyThrows
           \/ \E on, links \in BOOLEAN : Configure(on, links)
           \/ StartUninstall \/ Uninstall \/ Uninstalled \/ UNCHANGED vars
  BY <1>6, <1>8 DEF LateTask, StartInstall, Copied, CopySkipped, CopyThrows, Configure,
                    StartUninstall, Uninstall, Uninstalled
<1> QED
  BY <1>1, <1>2, <1>3, <1>4, <1>5, <1>7, <1>8 DEF Next, DaemonStep, Procs

LEMMA SilentTail ==
  ASSUME NEW ws \in Seq(Partial), Silent(ws), ws # <<>>
  PROVE  Silent(Tail(ws)) /\ ~SaysShown(Head(ws))
BY DEF Silent

LEMMA SilentPlans ==
  ASSUME NEW on \in BOOLEAN, NEW links \in BOOLEAN
  PROVE  /\ Silent(<<>>) /\ Silent(<<To({"links"}, TRUE)>>)
         /\ Silent(set_startup(on)) /\ Silent(install(on, links)) /\ Silent(uninstall)
<1>1. /\ \A v \in BOOLEAN : ~SaysShown(To({"task"}, v)) /\ ~SaysShown(To({"run"}, v))
      /\ \A v \in BOOLEAN : ~SaysShown(To({"enabled"}, v)) /\ ~SaysShown(To({"links"}, v))
      /\ \A v \in BOOLEAN : ~SaysShown(To({"key"}, v))
      /\ ~SaysShown(To({"enabled", "shown"}, FALSE))
  BY DEF SaysShown, To
<1>2. /\ Silent(<<>>)
      /\ \A a : ~SaysShown(a) => Silent(<<a>>)
      /\ \A a, b, c : ~SaysShown(a) /\ ~SaysShown(b) /\ ~SaysShown(c) => Silent(<<a, b, c>>)
  BY DEF Silent
<1>3. \A a, b \in Seq(Partial) : Silent(a) /\ Silent(b) => Silent(a \o b)
  BY DEF Silent
<1>4. \A v \in BOOLEAN : Silent(set_startup(v)) /\ set_startup(v) \in Seq(Partial)
  BY <1>1, <1>2, PlansAreWrites DEF set_startup
<1>5. \A S \in SUBSET Fields, v \in BOOLEAN : To(S, v) \in Partial
  BY ToIsPartial
<1>6. /\ \A a \in Partial : <<a>> \in Seq(Partial)
      /\ \A a, b, c \in Partial : <<a, b, c>> \in Seq(Partial)
      /\ \A a, b \in Seq(Partial) : a \o b \in Seq(Partial)
      /\ <<>> \in Seq(Partial)
  OBVIOUS
<1>7. /\ To({"links"}, TRUE) \in Partial /\ To({"key"}, TRUE) \in Partial
      /\ To({"links"}, FALSE) \in Partial /\ To({"key"}, FALSE) \in Partial
      /\ To({"enabled", "shown"}, FALSE) \in Partial
  BY <1>5 DEF Fields
<1>8. Silent(install(on, links))
  <2> DEFINE first == IF links THEN <<To({"links"}, TRUE)>> ELSE <<>>
  <2>1. first \in Seq(Partial) /\ Silent(first)
    BY <1>1, <1>2, <1>6, <1>7, Zenon
  <2>2. <<To({"key"}, TRUE)>> \in Seq(Partial) /\ Silent(<<To({"key"}, TRUE)>>)
    BY <1>1, <1>2, <1>6, <1>7, Zenon
  <2> HIDE DEF first
  <2>3. first \o set_startup(on) \in Seq(Partial) /\ Silent(first \o set_startup(on))
    BY <1>3, <1>4, <1>6, <2>1
  <2>4. Silent((first \o set_startup(on)) \o <<To({"key"}, TRUE)>>)
    BY <1>3, <2>2, <2>3
  <2> QED
    BY <2>4, Zenon DEF install, first
<1>9. Silent(uninstall)
  <2> DEFINE rest == <<To({"links"}, FALSE), To({"key"}, FALSE),
                       To({"enabled", "shown"}, FALSE)>>
  <2>1. rest \in Seq(Partial) /\ Silent(rest)
    BY <1>1, <1>2, <1>6, <1>7, Zenon
  <2>2. set_startup(FALSE) \in Seq(Partial) /\ Silent(set_startup(FALSE))
    BY <1>4
  <2> HIDE DEF rest
  <2>3. Silent(set_startup(FALSE) \o rest)
    BY <1>3, <2>1, <2>2
  <2> QED
    BY <2>3, Zenon DEF uninstall, rest
<1> QED
  BY <1>1, <1>2, <1>4, <1>8, <1>9

\* Who is not answered has nothing to note.
LEMMA ShownStep == TypeOK /\ ShownByAnswer /\ [Next]_vars => ShownByAnswer'
<1> SUFFICES ASSUME TypeOK, ShownByAnswer, [Next]_vars PROVE ShownByAnswer'
  OBVIOUS
\* It is enough that the plans of all but one process and their answers stay.
<1>0. ASSUME NEW p \in Procs, NEW ws,
             plan' = [plan EXCEPT ![p] = ws],
             \A q \in Procs \ {p} : q \in Daemons /\ pc[q] = "answer" => pc'[q] = "answer",
             Silent(ws) \/ (p \in Daemons /\ pc'[p] = "answer")
      PROVE  ShownByAnswer'
  BY <1>0 DEF ShownByAnswer, TypeOK
<1>1. ASSUME NEW p \in Procs, Write(p) \/ WriteFails(p) \/ WaitTimesOut(p)
      PROVE  ShownByAnswer'
  <2>1. /\ plan' = [plan EXCEPT ![p] = Tail(plan[p])] /\ pc' = pc
        /\ plan[p] \in Seq(Partial) /\ plan[p] # <<>>
    BY <1>1 DEF Write, WriteFails, WaitTimesOut, TypeOK
  <2>2. Silent(Tail(plan[p])) \/ (p \in Daemons /\ pc[p] = "answer")
    BY <2>1, SilentTail DEF ShownByAnswer
  <2> QED
    BY <1>0, <2>1, <2>2
<1>2. CASE RemoveThrows
  BY <1>0, <1>2, SilentPlans DEF RemoveThrows, Procs
<1>3. ASSUME NEW d \in Daemons, NEW ws, NEW result, Begin(d, ws, result),
             pc[d] # "answer" \/ pc'[d] = "answer",
             \A q \in Daemons \ {d} : pc'[q] = pc[q],
             Silent(ws) \/ pc'[d] = "answer"
      PROVE  ShownByAnswer'
  BY <1>0, <1>3 DEF Begin, Procs
<1>4. ASSUME NEW d \in Daemons, FirstInstance(d) PROVE ShownByAnswer'
  BY <1>3, <1>4, SilentPlans DEF FirstInstance, TypeOK
<1>5. ASSUME NEW d \in Daemons, NEW yes \in BOOLEAN, Answer(d, yes)
      PROVE  ShownByAnswer'
  BY <1>3, <1>5 DEF Answer, TypeOK
<1>6. ASSUME NEW d \in Daemons, ToggleStartup(d) PROVE ShownByAnswer'
  <2>1. offered[d] \in BOOLEAN
    BY DEF TypeOK
  <2> QED
    BY <1>3, <1>6, <2>1, SilentPlans DEF ToggleStartup, TypeOK
<1>7. ASSUME NEW ws, NEW result, Begin("setup", ws, result), pc' = pc, Silent(ws)
      PROVE  ShownByAnswer'
  BY <1>0, <1>7 DEF Begin, Procs
<1>8. ASSUME NEW on \in BOOLEAN, NEW links \in BOOLEAN, Configure(on, links)
      PROVE  ShownByAnswer'
  BY <1>7, <1>8, SilentPlans DEF Configure
<1>9. CASE Uninstall
  BY <1>7, <1>9, SilentPlans DEF Uninstall
<1>10. ASSUME plan' = plan,
              \A d \in Daemons : pc[d] = "answer" /\ plan[d] # <<>> => pc'[d] = "answer"
       PROVE  ShownByAnswer'
  BY <1>10, SilentPlans DEF ShownByAnswer
<1>11. ASSUME NEW d \in Daemons,
              \/ StartByHand(d) \/ StartAtLogon(d) \/ AlreadyRunning(d) \/ DismissBox(d)
              \/ Booted(d) \/ NoWindow(d) \/ Settled(d) \/ OpenMenu(d)
              \/ DismissMenu(d) \/ Leave(d)
       PROVE  ShownByAnswer'
  <2>1. /\ plan' = plan
        /\ \A e \in Daemons : pc[e] = "answer" /\ plan[e] # <<>> => pc'[e] = "answer"
    BY <1>11 DEF StartByHand, StartAtLogon, StartDaemon, AlreadyRunning, DismissBox,
                 Booted, NoWindow, Settled, OpenMenu, DismissMenu, Leave, TypeOK
  <2> QED
    BY <1>10, <2>1
<1>12. CASE Installed
  BY <1>10, <1>12 DEF Installed, StartDaemon, TypeOK
<1>13. CASE \/ \E v \in BOOLEAN : LateTask(v)
            \/ StartInstall \/ Copied \/ CopySkipped \/ CopyThrows \/ StartUninstall \/ Uninstalled
            \/ UNCHANGED vars
  <2>1. plan' = plan /\ pc' = pc
    BY <1>13 DEF LateTask, StartInstall, Copied, CopySkipped, CopyThrows, StartUninstall,
                 Uninstalled
  <2> QED
    BY <1>10, <2>1
<1>14. CASE Logon
  BY <1>14, SilentPlans DEF Logon, ShownByAnswer
<1> QED
  BY <1>1, <1>2, <1>4, <1>5, <1>6, <1>8, <1>9, <1>11, <1>12, <1>13, <1>14
     DEF Next, DaemonStep

LEMMA AskStep == TypeOK /\ PromiseInv /\ AskInv /\ [Next]_vars => AskedOnce'
<1> SUFFICES ASSUME TypeOK, PromiseInv, AskInv, [Next]_vars PROVE AskedOnce'
  OBVIOUS
<1>0. /\ \A S : SaysShown(Without(promise, S)) => SaysShown(promise)
      /\ \A w, S : SaysShown(Without(Over(w, promise), S)) =>
                      SaysShown(w) \/ SaysShown(promise)
  BY DEF SaysShown, Without, Over
\* Nobody comes to ask, and nothing is promised anew.
<1>1. ASSUME "unguarded" \in since => "unguarded" \in since',
             \A d \in Daemons : pc'[d] = "ask" => pc[d] = "ask",
             SaysShown(promise') => SaysShown(promise)
      PROVE  AskedOnce'
  BY <1>1 DEF AskInv, AskedOnce, SaysShown
\* Who comes to ask sees that no answer has been saved, and nobody is saving one.
<1>2. ASSUME NEW d \in Daemons, Booted(d) PROVE AskedOnce'
  <2>1. /\ promise' = promise /\ pc[d] = "links"
        /\ since' = since \union {"booted"}
        /\ \A e \in Daemons : pc'[e] = "ask" =>
             pc[e] = "ask" \/ (e = d /\ ~settings["shown"])
    BY <1>2 DEF Booted, TypeOK
  <2> SUFFICES ASSUME "unguarded" \notin since, NEW e \in Daemons, pc'[e] = "ask",
                      SaysShown(promise)
               PROVE  FALSE
    BY <2>1 DEF AskedOnce, SaysShown
  <2>2. e = d /\ ~settings["shown"]
    BY <2>1 DEF AskInv, AskedOnce, SaysShown
  <2>3. Kept("shown") /\ promise["shown"]
    BY DEF PromiseInv, SaysShown
  <2>4. PICK p \in Procs : Brings(plan[p], "shown", promise["shown"])
    BY <2>2, <2>3 DEF Kept
  <2>5. plan[p] \in Seq(Partial)
    BY DEF TypeOK
  <2>6. DOMAIN plan[p] = 1 .. Len(plan[p])
    BY <2>5
  <2>7. ~Silent(plan[p])
    BY <2>3, <2>4, <2>6, Zenon DEF Brings, Silent, SaysShown
  <2>8. p \in Daemons /\ pc[p] = "answer"
    BY <2>7 DEF AskInv, ShownByAnswer
  <2>9. p = d
    BY <2>1, <2>8 DEF AskInv, Owner, PastMutex
  <2> QED
    BY <2>1, <2>8, <2>9
\* Who answers was the only one past the mutex.
<1>3. ASSUME NEW d \in Daemons, NEW yes \in BOOLEAN, Answer(d, yes) PROVE AskedOnce'
  <2>1. pc[d] = "ask" /\ pc' = [pc EXCEPT ![d] = "answer"] /\ since' = since
    BY <1>3 DEF Answer
  <2>2. "unguarded" \notin since => \A e \in Daemons : pc'[e] # "ask"
    BY <2>1 DEF AskInv, Owner, PastMutex, TypeOK
  <2> QED
    BY <2>1, <2>2 DEF AskedOnce
<1>4. ASSUME NEW p, NEW ws, NEW result \in Partial, Begin(p, ws, result),
             ~SaysShown(result)
      PROVE  SaysShown(promise') => SaysShown(promise)
  BY <1>0, <1>4, Zenon DEF Begin
<1>5. ASSUME NEW d \in Daemons, FirstInstance(d) \/ ToggleStartup(d) PROVE AskedOnce'
  <2>1. /\ "unguarded" \in since => "unguarded" \in since'
        /\ \A e \in Daemons : pc'[e] = "ask" => pc[e] = "ask"
    BY <1>5 DEF FirstInstance, ToggleStartup, TypeOK
  <2>2. PICK on \in BOOLEAN : on = ~offered[d]
    OBVIOUS
  <2>3. /\ To({"links"}, TRUE) \in Partial /\ To(Startup, on) \in Partial
        /\ ~SaysShown(To({"links"}, TRUE)) /\ ~SaysShown(To(Startup, on))
    <3>1. To({"links"}, TRUE) \in Partial /\ To(Startup, on) \in Partial
      BY ToIsPartial DEF Startup, Fields
    <3> QED
      BY <3>1 DEF SaysShown, To, Startup
  <2>4. \/ \E ws : Begin(d, ws, To({"links"}, TRUE))
        \/ \E ws : Begin(d, ws, To(Startup, on))
    BY <1>5, <2>2, Zenon DEF FirstInstance, ToggleStartup
  <2>5. SaysShown(promise') => SaysShown(promise)
    BY <1>4, <2>3, <2>4, Zenon
  <2> QED
    BY <1>1, <2>1, <2>5
<1>6. ASSUME NEW on \in BOOLEAN, NEW links \in BOOLEAN, Configure(on, links)
      PROVE  AskedOnce'
  <2>1. PICK result :
          result = Over(To({"key"}, TRUE),
                        Over(To(Startup, on), To(IF links THEN {"links"} ELSE {}, TRUE)))
    OBVIOUS
  <2>2. /\ To({"key"}, TRUE) \in Partial /\ To(Startup, on) \in Partial
        /\ To(IF links THEN {"links"} ELSE {}, TRUE) \in Partial
    BY ToIsPartial DEF Startup, Fields
  <2>3. result \in Partial
    BY <2>1, <2>2, OverIsPartial
  <2>4. ~SaysShown(result)
    BY <2>1 DEF SaysShown, Over, To, Startup
  <2>5. PICK ws : Begin("setup", ws, result)
    BY <1>6, <2>1, Zenon DEF Configure
  <2>6. SaysShown(promise') => SaysShown(promise)
    BY <1>4, <2>3, <2>4, <2>5, Zenon
  <2> QED
    BY <1>1, <1>6, <2>6 DEF Configure
<1>7. CASE Uninstall
  <2>1. To(Fields, FALSE) \in Partial /\ ~SaysShown(To(Fields, FALSE))
    <3>1. To(Fields, FALSE) \in Partial
      BY ToIsPartial
    <3> QED
      BY <3>1 DEF SaysShown, To
  <2>2. PICK ws : Begin("setup", ws, To(Fields, FALSE))
    BY <1>7, Zenon DEF Uninstall
  <2>3. SaysShown(promise') => SaysShown(promise)
    BY <1>4, <2>1, <2>2, Zenon
  <2> QED
    BY <1>1, <1>7, <2>3 DEF Uninstall
<1>8. ASSUME (\E p \in Procs : WriteFails(p) \/ WaitTimesOut(p)) \/ RemoveThrows
      PROVE  AskedOnce'
  <2>1. PICK S : promise' = Without(promise, S)
    BY <1>8 DEF WriteFails, WaitTimesOut, RemoveThrows
  <2>2. pc' = pc /\ since' = since
    BY <1>8 DEF WriteFails, WaitTimesOut, RemoveThrows
  <2> QED
    BY <1>0, <1>1, <2>1, <2>2
<1>9. ASSUME NEW d \in Daemons,
             \/ StartByHand(d) \/ StartAtLogon(d) \/ AlreadyRunning(d) \/ DismissBox(d)
             \/ NoWindow(d) \/ Settled(d) \/ OpenMenu(d) \/ DismissMenu(d) \/ Leave(d)
      PROVE  AskedOnce'
  <2>1. promise' = promise /\ ("unguarded" \in since => "unguarded" \in since')
    BY <1>9 DEF StartByHand, StartAtLogon, StartDaemon, AlreadyRunning, DismissBox,
                NoWindow, Settled, OpenMenu, DismissMenu, Leave
  <2>2. \A e \in Daemons : pc'[e] = "ask" => pc[e] = "ask"
    BY <1>9 DEF StartByHand, StartAtLogon, StartDaemon, AlreadyRunning, DismissBox,
                NoWindow, Settled, OpenMenu, DismissMenu, Leave, TypeOK
  <2> QED
    BY <1>1, <2>1, <2>2
<1>10. CASE Installed
  <2>1. /\ promise' = promise /\ since' = since
        /\ \A e \in Daemons : pc'[e] = "ask" => pc[e] = "ask"
    BY <1>10 DEF Installed, StartDaemon, TypeOK
  <2> QED
    BY <1>1, <2>1
<1>11. CASE Logon
  BY <1>11 DEF Logon, AskedOnce
<1>12. CASE \/ (\E p \in Procs : Write(p)) \/ (\E v \in BOOLEAN : LateTask(v))
            \/ StartInstall \/ Copied \/ CopySkipped \/ CopyThrows \/ StartUninstall
            \/ Uninstalled \/ UNCHANGED vars
  <2>1. promise' = promise /\ since' = since /\ pc' = pc
    BY <1>12 DEF Write, LateTask, StartInstall, Copied, CopySkipped, CopyThrows,
                 StartUninstall, Uninstalled
  <2> QED
    BY <1>1, <2>1
<1> QED
  BY <1>2, <1>3, <1>5, <1>6, <1>7, <1>8, <1>9, <1>10, <1>11, <1>12 DEF Next, DaemonStep

LEMMA InitAsk == Init => AskInv
BY SilentPlans DEF Init, AskInv, Owner, ShownByAnswer, AskedOnce, PastMutex
-----------------------------------------------------------------------------
\* While setup copies, what is not from it was not beside it or is still to come.
Copying ==
  setup = "copying" =>
    \A i \in DOMAIN version : \/ version[i] = setups \/ i \in skipped
                              \/ \E j \in DOMAIN left : left[j] = i

WholeInv == Copying /\ InstalledWhole

LEMMA WholeStep == TypeOK /\ WholeInv /\ [Next]_vars => WholeInv'
<1> SUFFICES ASSUME TypeOK, WholeInv, [Next]_vars PROVE WholeInv'
  OBVIOUS
<1>1. CASE StartInstall
  <2>1. DOMAIN version = {Package[j] : j \in DOMAIN Package}
    BY DEF TypeOK
  <2> QED
    BY <1>1, <2>1 DEF StartInstall, WholeInv, Copying, InstalledWhole
<1>2. CASE Copied \/ CopySkipped
  <2>1. /\ setup = "copying" /\ setup' = "copying" /\ setups' = setups
        /\ left \in Seq(STRING) /\ left # <<>> /\ left' = Tail(left)
    BY <1>2 DEF Copied, CopySkipped, TypeOK
  <2>2. \A j \in DOMAIN left : left[j] = Head(left) \/ \E k \in DOMAIN left' : left'[k] = left[j]
    <3> SUFFICES ASSUME NEW j \in DOMAIN left, j # 1
                 PROVE  \E k \in DOMAIN left' : left'[k] = left[j]
      BY <2>1
    <3>1. j - 1 \in DOMAIN left' /\ left'[j - 1] = left[j]
      BY <2>1
    <3> QED
      BY <3>1
  <2>3. \A i \in DOMAIN version :
          \/ version[i] = setups \/ i \in skipped \/ \E j \in DOMAIN left : left[j] = i
    BY <2>1 DEF WholeInv, Copying
  <2>4. /\ DOMAIN version' = DOMAIN version
        /\ \A i \in DOMAIN version :
             /\ version[i] = setups => version'[i] = setups
             /\ i \in skipped => i \in skipped'
             /\ i = Head(left) => version'[i] = setups \/ i \in skipped'
    BY <1>2 DEF Copied, CopySkipped, TypeOK
  <2>5. ASSUME NEW i \in DOMAIN version
        PROVE  \/ version'[i] = setups \/ i \in skipped'
               \/ \E k \in DOMAIN left' : left'[k] = i
    BY <2>2, <2>3, <2>4
  <2> QED
    BY <2>1, <2>4, <2>5 DEF WholeInv, Copying, InstalledWhole
<1>3. ASSUME NEW on \in BOOLEAN, NEW links \in BOOLEAN, Configure(on, links)
      PROVE  WholeInv'
  BY <1>3 DEF Configure, WholeInv, Copying, InstalledWhole
<1>4. CASE CopyThrows \/ Installed \/ StartUninstall \/ Uninstall \/ Uninstalled \/ RemoveThrows
  BY <1>4 DEF CopyThrows, Installed, StartUninstall, Uninstall, Uninstalled, RemoveThrows,
              WholeInv, Copying, InstalledWhole
<1>5. CASE Logon
  BY <1>5 DEF Logon, WholeInv, Copying, InstalledWhole
<1>6. ASSUME UNCHANGED <<setup, left, version, skipped, setups>> PROVE WholeInv'
  BY <1>6 DEF WholeInv, Copying, InstalledWhole
<1>7. ASSUME NEW d \in Daemons,
             \/ StartByHand(d) \/ StartAtLogon(d) \/ DaemonStep(d) \/ DismissBox(d)
             \/ NoWindow(d) \/ OpenMenu(d) \/ ToggleStartup(d) \/ DismissMenu(d)
             \/ Leave(d)
             \/ \E yes \in BOOLEAN : Answer(d, yes)
      PROVE  WholeInv'
  <2>1. UNCHANGED <<setup, left, version, skipped>>
    BY <1>7 DEF StartByHand, StartAtLogon, DaemonStep, AlreadyRunning, FirstInstance,
                DismissBox, NoWindow, Booted, Settled, OpenMenu, ToggleStartup, DismissMenu,
                Leave, Answer
  <2>2. UNCHANGED setups
    BY <1>7 DEF StartByHand, StartAtLogon, DaemonStep, AlreadyRunning, FirstInstance,
                DismissBox, NoWindow, Booted, Settled, OpenMenu, ToggleStartup, DismissMenu,
                Leave, Answer
  <2> QED
    BY <1>6, <2>1, <2>2
<1>8. ASSUME NEW p \in Procs, Write(p) \/ WriteFails(p) \/ WaitTimesOut(p)
      PROVE  WholeInv'
  BY <1>6, <1>8 DEF Write, WriteFails, WaitTimesOut
<1>9. CASE (\E v \in BOOLEAN : LateTask(v)) \/ UNCHANGED vars
  BY <1>6, <1>9 DEF LateTask
<1> QED
  BY <1>1, <1>2, <1>3, <1>4, <1>5, <1>7, <1>8, <1>9 DEF Next

LEMMA InitWhole == Init => WholeInv
BY DEF Init, WholeInv, Copying, InstalledWhole
-----------------------------------------------------------------------------
\* Every variable keeps its type, for any number of processes, faults and logons.
THEOREM TypeCorrect == Spec => []TypeOK
<1> QED
  BY InitTypes, TypeStep, PTL DEF Spec

\* Each field holds what the last operation on it was to leave there, once nobody is
\* at it any more, unless a call for it failed, came late, was cut off or met
\* another's: of each promise one plan at most is in charge, and its last write of
\* the field brings it about (startup_manager.cpp:99-108, 111-188,
\* setup_main.cpp:184-197).
THEOREM OperationsKeepPromises == Spec => []PromiseKept
<1>1. Spec => []BusyPlans
  BY InitPromise, BusyStep, TypeCorrect, PTL DEF Spec
<1>2. Spec => []PromiseInv
  BY InitPromise, TypeCorrect, PromiseStep, <1>1, PTL DEF Spec
<1>3. TypeOK /\ PromiseInv => PromiseKept
  BY PromiseIsKept
<1> QED
  BY <1>2, <1>3, TypeCorrect, PTL

\* Nobody is in front of the prompt who has answered one, as long as every daemon
\* could get at the mutex and the answer was noted: one daemon at most is past the
\* mutex, only one that has its answer notes that it asked, and that promise is kept
\* until an uninstallation begins (daemon_main.cpp:197-213, startup_manager.cpp:56-97).
THEOREM NobodyAskedTwice == Spec => []AskedOnce
<1>1. Spec => []BusyPlans
  BY InitPromise, BusyStep, TypeCorrect, PTL DEF Spec
<1>2. Spec => []PromiseInv
  BY InitPromise, TypeCorrect, PromiseStep, <1>1, PTL DEF Spec
<1>3. TypeOK /\ PromiseInv /\ AskInv /\ [Next]_vars => AskInv'
  BY OwnerStep, ShownStep, AskStep DEF AskInv
<1>4. Spec => []AskInv
  BY InitAsk, TypeCorrect, <1>2, <1>3, PTL DEF Spec
<1>5. AskInv => AskedOnce
  BY DEF AskInv
<1> QED
  BY <1>4, <1>5, PTL

\* Success is announced only of an installation each of whose files is from this
\* setup or was not beside it (setup_main.cpp:75-85).
THEOREM WholeWhenAnnounced == Spec => []InstalledWhole
<1>1. Spec => []WholeInv
  BY InitWhole, TypeCorrect, WholeStep, PTL DEF Spec
<1>2. WholeInv => InstalledWhole
  BY DEF WholeInv
<1> QED
  BY <1>1, <1>2, PTL
=============================================================================
