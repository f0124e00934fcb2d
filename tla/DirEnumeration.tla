--------------------------- MODULE DirEnumeration ---------------------------
(***************************************************************************)
(* Directory enumerations of the projection: g_enum_sessions and the three *)
(* callbacks that work on it under g_session_mutex. ProjFS runs several     *)
(* enumerations at once, fetches each in pieces of whatever size, and may   *)
(* restart one, with another search expression or with none.               *)
(***************************************************************************)
EXTENDS Integers, Sequences, FiniteSets

CONSTANTS
  Guids,     \* enumeration identifiers
  Names,     \* names of directory entries
  Listings,  \* what VfsTree lists: sequences of names
  Exprs,     \* search expressions
  Matches,   \* Matches[e]: the names that match e (PrjFileNameMatch)
  NoExpr,    \* no expression: every name matches
  MaxStarts  \* bound: how many enumerations are started

ASSUME NamesAssumption ==
  /\ Listings \subseteq Seq(Names)
  /\ Matches \in [Exprs -> SUBSET Names]
  /\ NoExpr \notin Exprs
  /\ MaxStarts \in Nat

VARIABLES
  sessions,  \* g_enum_sessions: a session for some of the Guids
  open,      \* the enumerations ProjFS has open, and of what listing
  told,      \* told[g]: what ProjFS asks for: the expression of the first call,
             \* or of the last one that restarted the scan; none is every entry
  asked,     \* history: the enumerations ProjFS has ever given an expression for
  count,     \* count[g][n]: how often entry n was returned since g (re)started
  last,      \* last[g]: the result of the last call for g
  starts     \* what is left of MaxStarts

vars == <<sessions, open, told, asked, count, last, starts>>

Expressions == Exprs \cup {NoExpr}
MatchedBy(e) == IF e = NoExpr THEN Names ELSE Matches[e]

\* f with f[k] = v, and f without k.
With(f, k, v) == [j \in DOMAIN f \cup {k} |-> IF j = k THEN v ELSE f[j]]
Without(f, k) == [j \in DOMAIN f \ {k} |-> f[j]]
-----------------------------------------------------------------------------
\* StartDirEnumCallback, once the directory has been listed.
StartDirEnum(g) ==
  /\ g \notin DOMAIN open /\ starts > 0
  /\ \E listing \in Listings :
       /\ sessions' = With(sessions, g, [entries |-> listing, index |-> 1, expr |-> NoExpr])
       /\ open' = With(open, g, listing)
       /\ count' = With(count, g, [n \in DOMAIN listing |-> 0])
  /\ told' = With(told, g, NoExpr)
  /\ last' = With(last, g, "none")
  /\ starts' = starts - 1
  /\ UNCHANGED asked

\* Variant: the scan is not restarted.
Restarted_ignored(session, restart) == session

Restarted(session, restart) ==
  IF restart THEN [session EXCEPT !.index = 1] ELSE session

\* Variant: an expression is taken from the first call only.
Searching_once(session, expr) ==
  IF session.expr = NoExpr THEN [session EXCEPT !.expr = expr] ELSE session

\* An expression is kept until another one is given, a restart without one
\* included.
Searching(session, expr) ==
  IF expr = NoExpr THEN session ELSE [session EXCEPT !.expr = expr]

\* The entries the loop returns if it stops at entry `stop`.
Returned(session, stop) ==
  {n \in session.index .. stop - 1 : session.entries[n] \in MatchedBy(session.expr)}

\* The loop stops at the end, or at an entry that matches and does not fit.
Stops(session) ==
  {n \in session.index .. Len(session.entries) :
     session.entries[n] \in MatchedBy(session.expr)}
  \cup {Len(session.entries) + 1}

\* Variant: the entry that did not fit counts as returned.
NextIndex_skips(stop) == stop + 1

NextIndex(stop) == stop

\* The entry at `stop` does not fit, or PrjFillDirEntryBuffer fails on it.
Results(session, stop) ==
  IF stop > Len(session.entries)
  THEN {IF Returned(session, stop) # {} THEN "ok" ELSE "no_more_files"}
  ELSE {IF Returned(session, stop) # {} THEN "ok" ELSE "insufficient_buffer", "failed"}

\* What ProjFS asks for from this call on: the expression is captured with the first
\* call and again when the scan is restarted.
Asks(g, restart, expr) ==
  IF restart \/ last[g] = "none" THEN expr ELSE told[g]

\* GetDirEnumCallback. ProjFS may repeat the expression with the calls that go on
\* with a scan. A call that failed is all its caller learns of the scan: it goes on
\* from the start or not at all.
GetDirEnum(g, restart, expr) ==
  /\ g \in DOMAIN sessions /\ g \in DOMAIN open
  /\ expr \in {NoExpr, Asks(g, restart, expr)}
  /\ last[g] = "failed" => restart
  /\ LET session == Searching(Restarted(sessions[g], restart), expr)
     IN  \E stop \in Stops(session) : \E result \in Results(session, stop) :
           /\ sessions' = [sessions EXCEPT ![g] = [session EXCEPT !.index = NextIndex(stop)]]
           /\ count' = [count EXCEPT ![g] =
                [n \in DOMAIN open[g] |->
                   (IF restart THEN 0 ELSE count[g][n])
                   + IF n \in Returned(session, stop) THEN 1 ELSE 0]]
           /\ last' = [last EXCEPT ![g] = result]
  /\ told' = [told EXCEPT ![g] = Asks(g, restart, expr)]
  /\ asked' = IF expr = NoExpr THEN asked ELSE asked \cup {g}
  /\ UNCHANGED <<open, starts>>

\* Variant: the end of one enumeration ends them all.
EndDirEnum_all(g) ==
  /\ g \in DOMAIN open
  /\ sessions' = <<>>
  /\ open' = Without(open, g) /\ told' = Without(told, g)
  /\ count' = Without(count, g) /\ last' = Without(last, g)
  /\ asked' = asked \ {g}
  /\ UNCHANGED starts

\* EndDirEnumCallback.
EndDirEnum(g) ==
  /\ g \in DOMAIN open
  /\ sessions' = Without(sessions, g)
  /\ open' = Without(open, g) /\ told' = Without(told, g)
  /\ count' = Without(count, g) /\ last' = Without(last, g)
  /\ asked' = asked \ {g}
  /\ UNCHANGED starts

Init ==
  /\ sessions = <<>> /\ open = <<>> /\ told = <<>> /\ asked = {}
  /\ count = <<>> /\ last = <<>>
  /\ starts = MaxStarts

Next ==
  \E g \in Guids :
    \/ StartDirEnum(g)
    \/ \E restart \in BOOLEAN, expr \in Expressions : GetDirEnum(g, restart, expr)
    \/ EndDirEnum(g)

Spec == Init /\ [][Next]_vars
-----------------------------------------------------------------------------
\* Every variable has the values the code can give it.
TypeOK ==
  /\ DOMAIN open \subseteq Guids
  /\ DOMAIN sessions = DOMAIN open /\ DOMAIN told = DOMAIN open
  /\ asked \subseteq DOMAIN open
  /\ DOMAIN count = DOMAIN open /\ DOMAIN last = DOMAIN open
  /\ \A g \in DOMAIN open :
       /\ open[g] \in Listings /\ told[g] \in Expressions
       /\ sessions[g] \in [entries : {open[g]}, index : 1 .. Len(open[g]) + 1,
                           expr : Expressions]
       /\ count[g] \in [DOMAIN open[g] -> Nat]
       /\ last[g] \in {"none", "ok", "no_more_files", "insufficient_buffer", "failed"}
  /\ starts \in Nat

\* The scan was restarted without an expression after one had been given: ProjFS
\* asks for every entry, the session still has the expression.
Dropped(g) == told[g] = NoExpr /\ g \in asked

\* However an enumeration is cut into calls, restarted and interleaved with
\* others, no entry is returned twice, none that does not match what ProjFS asks
\* for, and none that matches is passed over, with one exception: when a restart
\* has dropped the expression, entries may be withheld (projfs_mount.cpp:265-319).
EachOnce ==
  \A g \in DOMAIN open : \A n \in DOMAIN open[g] :
    LET due == n < sessions[g].index /\ open[g][n] \in MatchedBy(told[g])
    IN  /\ count[g][n] = 1 \/ count[g][n] = 0
        /\ count[g][n] = 1 => due
        /\ due => count[g][n] = 1 \/ Dropped(g)

\* Windows is told that there are no more files only when it has been given all
\* that match what ProjFS asks for, with the same exception
\* (projfs_mount.cpp:265-271, 321).
NoMoreMeansAll ==
  \A g \in DOMAIN open : last[g] = "no_more_files" /\ ~Dropped(g) =>
    \A n \in DOMAIN open[g] : open[g][n] \in MatchedBy(told[g]) => count[g][n] = 1

\* The session searches for what ProjFS asks for unless that was dropped, has
\* returned what matches before the place it has come to, is at the first entry as
\* long as nothing was fetched, and at the end when it has said so.
InStep ==
  \A g \in DOMAIN open :
    /\ sessions[g].expr = told[g] \/ Dropped(g)
    /\ g \notin asked => told[g] = NoExpr /\ sessions[g].expr = NoExpr
    /\ \A n \in DOMAIN open[g] :
         count[g][n] =
           IF n < sessions[g].index /\ open[g][n] \in MatchedBy(sessions[g].expr)
           THEN 1 ELSE 0
    /\ last[g] = "none" => sessions[g].index = 1 /\ g \notin asked
    /\ last[g] = "no_more_files" => sessions[g].index = Len(open[g]) + 1
=============================================================================
