------------------------ MODULE DirEnumerationProofs ------------------------
(***************************************************************************)
(* Theorems about DirEnumeration, for any listings, expressions and number *)
(* of enumerations.                                                        *)
(***************************************************************************)
EXTENDS DirEnumeration, TLAPS

USE DEF vars

\* EachOnce and NoMoreMeansAll follow from this; InStep ties what was returned to
\* the session, and the session to what ProjFS asks for.
Inv == TypeOK /\ InStep

LEMMA InitInv == Init => Inv
  BY NamesAssumption DEF Init, Inv, TypeOK, InStep

LEMMA StartStep ==
  ASSUME Inv, NEW g \in Guids, StartDirEnum(g)
  PROVE  Inv'
<1>1. PICK listing \in Listings :
        /\ sessions' = With(sessions, g, [entries |-> listing, index |-> 1, expr |-> NoExpr])
        /\ open' = With(open, g, listing)
        /\ count' = With(count, g, [n \in DOMAIN listing |-> 0])
  BY DEF StartDirEnum
<1>2. /\ told' = With(told, g, NoExpr) /\ last' = With(last, g, "none")
      /\ starts' \in Nat /\ listing \in Seq(Names) /\ asked' = asked /\ g \notin asked
  BY NamesAssumption DEF StartDirEnum, Inv, TypeOK
<1>3. TypeOK'
  BY <1>1, <1>2 DEF With, Inv, TypeOK, Expressions
<1>4. InStep'
  BY <1>1, <1>2 DEF With, Inv, TypeOK, InStep, Dropped
<1> QED
  BY <1>3, <1>4 DEF Inv

LEMMA EndStep ==
  ASSUME Inv, NEW g \in Guids, EndDirEnum(g)
  PROVE  Inv'
BY DEF EndDirEnum, Without, Inv, TypeOK, InStep, Dropped

LEMMA GetStep ==
  ASSUME Inv, NEW g \in Guids, NEW restart \in BOOLEAN, NEW expr \in Expressions,
         GetDirEnum(g, restart, expr)
  PROVE  Inv'
<1> DEFINE session == Searching(Restarted(sessions[g], restart), expr)
<1>1. g \in DOMAIN open /\ open[g] \in Seq(Names)
  BY NamesAssumption DEF GetDirEnum, Inv, TypeOK
<1>2. PICK stop \in Stops(session), result \in
             {"none", "ok", "no_more_files", "insufficient_buffer", "failed"} :
        /\ result \in Results(session, stop)
        /\ sessions' = [sessions EXCEPT ![g] = [session EXCEPT !.index = NextIndex(stop)]]
        /\ count' = [count EXCEPT ![g] =
             [n \in DOMAIN open[g] |->
                (IF restart THEN 0 ELSE count[g][n])
                + IF n \in Returned(session, stop) THEN 1 ELSE 0]]
        /\ last' = [last EXCEPT ![g] = result]
  BY DEF GetDirEnum, Results
<1>3. /\ told' = [told EXCEPT ![g] = Asks(g, restart, expr)]
      /\ asked' = IF expr = NoExpr THEN asked ELSE asked \cup {g}
      /\ open' = open /\ starts' = starts
  BY DEF GetDirEnum
<1>4. sessions[g] \in [entries : {open[g]}, index : 1 .. Len(open[g]) + 1, expr : Expressions]
  BY <1>1 DEF Inv, TypeOK
<1>5. Restarted(sessions[g], restart) \in
        [entries : {open[g]}, index : 1 .. Len(open[g]) + 1, expr : Expressions]
  BY <1>1, <1>4 DEF Restarted
\* The session after the restart and the new expression.
<1>6. /\ session \in [entries : {open[g]}, index : 1 .. Len(open[g]) + 1, expr : Expressions]
      /\ session.index = IF restart THEN 1 ELSE sessions[g].index
  BY <1>4, <1>5 DEF Searching, Restarted
<1>7. session.expr = IF expr = NoExpr THEN sessions[g].expr ELSE expr
  BY <1>4, <1>5 DEF Searching, Restarted
\* The session searches for what ProjFS asks for, unless the restart dropped it.
<1>8. /\ told'[g] \in Expressions
      /\ session.expr = told'[g] \/ (told'[g] = NoExpr /\ g \in asked')
      /\ g \notin asked' => told'[g] = NoExpr /\ session.expr = NoExpr
  <2>1. told'[g] = IF restart \/ last[g] = "none" THEN expr ELSE told[g]
    BY <1>1, <1>3 DEF Asks, Inv, TypeOK
  <2>2. expr = NoExpr \/ expr = told'[g]
    BY <2>1 DEF GetDirEnum, Asks
  <2> QED
    BY <1>1, <1>3, <1>7, <2>1, <2>2 DEF Inv, TypeOK, InStep, Dropped
\* Without a restart the expression stays what it was, unless nothing has been
\* fetched.
<1>9. restart \/ session.expr = sessions[g].expr \/ last[g] = "none"
  <2> SUFFICES ASSUME ~restart, last[g] # "none", expr # NoExpr
               PROVE  expr = sessions[g].expr
    BY <1>7
  <2>1. expr = told[g]
    BY DEF GetDirEnum, Asks
  <2> QED
    BY <2>1, <1>1 DEF Inv, InStep, Dropped
<1> DEFINE L == Len(open[g])
<1> HIDE DEF session
<1>10. /\ stop \in session.index .. L + 1
       /\ Returned(session, stop) =
            {n \in session.index .. stop - 1 : open[g][n] \in MatchedBy(session.expr)}
       /\ \A n \in Returned(session, stop) : n < stop
  BY <1>1, <1>6 DEF Stops, Returned
<1>11. TypeOK'
  <2>1. sessions'[g] \in [entries : {open[g]}, index : 1 .. L + 1, expr : Expressions]
    <3>1. stop \in 1 .. L + 1
      BY <1>1, <1>4, <1>6, <1>10
    <3>2. sessions'[g] = [session EXCEPT !.index = stop]
      BY <1>1, <1>2 DEF Inv, TypeOK, NextIndex
    <3> HIDE DEF L
    <3> QED
      BY <3>1, <3>2, <1>6 DEF L
  <2>2. count'[g] \in [DOMAIN open[g] -> Nat]
    BY <1>1, <1>2 DEF Inv, TypeOK
  <2>3. last'[g] \in {"none", "ok", "no_more_files", "insufficient_buffer", "failed"}
    BY <1>1, <1>2 DEF Inv, TypeOK, Results
  <2>4. /\ DOMAIN sessions' = DOMAIN sessions /\ DOMAIN count' = DOMAIN count
        /\ DOMAIN last' = DOMAIN last /\ DOMAIN told' = DOMAIN told
        /\ told'[g] \in Expressions /\ asked' \subseteq DOMAIN open
    BY <1>1, <1>2, <1>3, <1>8 DEF Inv, TypeOK
  <2>5. \A h \in DOMAIN open : h # g =>
          /\ sessions'[h] = sessions[h] /\ count'[h] = count[h]
          /\ last'[h] = last[h] /\ told'[h] = told[h]
    BY <1>1, <1>2, <1>3 DEF Inv, TypeOK
  <2> HIDE DEF L
  <2>6. ASSUME NEW h \in DOMAIN open
        PROVE  /\ open'[h] \in Listings /\ told'[h] \in Expressions
               /\ sessions'[h] \in [entries : {open'[h]},
                    index : 1 .. Len(open'[h]) + 1, expr : Expressions]
               /\ count'[h] \in [DOMAIN open'[h] -> Nat]
               /\ last'[h] \in {"none", "ok", "no_more_files", "insufficient_buffer", "failed"}
    <3>1. CASE h = g
      BY <3>1, <1>3, <2>1, <2>2, <2>3, <2>4 DEF Inv, TypeOK, L
    <3>2. CASE h # g
      BY <3>2, <1>3, <2>5 DEF Inv, TypeOK
    <3> QED
      BY <3>1, <3>2
  <2> QED
    BY <1>3, <2>4, <2>6 DEF Inv, TypeOK
<1>12. ASSUME NEW n \in DOMAIN open[g]
       PROVE  count'[g][n] = IF n < stop /\ open[g][n] \in MatchedBy(session.expr)
                             THEN 1 ELSE 0
  <2>1. count'[g][n] = (IF restart THEN 0 ELSE count[g][n])
                       + IF n \in Returned(session, stop) THEN 1 ELSE 0
    BY <1>1, <1>2 DEF Inv, TypeOK
  <2>2. (IF restart THEN 0 ELSE count[g][n]) =
          IF n < session.index /\ open[g][n] \in MatchedBy(session.expr) THEN 1 ELSE 0
    BY <1>1, <1>6, <1>9 DEF Inv, TypeOK, InStep
  <2> QED
    BY <1>1, <1>6, <1>10, <2>1, <2>2
<1>13. InStep'
  <2>1. /\ sessions'[g].expr = session.expr /\ sessions'[g].index = stop
        /\ last'[g] = result
    BY <1>1, <1>2, <1>6 DEF Inv, TypeOK, NextIndex
  <2>2. last'[g] # "none" /\ (last'[g] = "no_more_files" => stop = L + 1)
    BY <1>1, <1>2, <1>6, <1>10, <2>1 DEF Results
  <2>3. ASSUME NEW h \in DOMAIN open, h # g
        PROVE  /\ sessions'[h] = sessions[h] /\ count'[h] = count[h]
               /\ last'[h] = last[h] /\ told'[h] = told[h]
               /\ h \in asked' <=> h \in asked
    BY <1>1, <1>2, <1>3, <2>3 DEF Inv, TypeOK
  <2> HIDE DEF L
  <2> SUFFICES ASSUME NEW h \in DOMAIN open
               PROVE  /\ sessions'[h].expr = told'[h] \/ Dropped(h)'
                      /\ h \notin asked' =>
                           told'[h] = NoExpr /\ sessions'[h].expr = NoExpr
                      /\ \A n \in DOMAIN open[h] :
                           count'[h][n] =
                             IF /\ n < sessions'[h].index
                                /\ open[h][n] \in MatchedBy(sessions'[h].expr)
                             THEN 1 ELSE 0
                      /\ last'[h] = "none" => sessions'[h].index = 1 /\ h \notin asked'
                      /\ last'[h] = "no_more_files" =>
                           sessions'[h].index = Len(open[h]) + 1
    BY <1>3 DEF InStep
  <2>4. CASE h = g
    BY <2>4, <1>8, <1>12, <2>1, <2>2 DEF Dropped, L
  <2>5. CASE h # g
    BY <2>5, <2>3 DEF Inv, InStep, Dropped
  <2> QED
    BY <2>4, <2>5
<1> QED
  BY <1>11, <1>13 DEF Inv

LEMMA Invariance == Spec => []Inv
<1>1. Inv /\ [Next]_vars => Inv'
  <2> SUFFICES ASSUME Inv, [Next]_vars PROVE Inv'
    OBVIOUS
  <2>1. CASE Next
    BY <2>1, StartStep, GetStep, EndStep DEF Next
  <2>2. CASE UNCHANGED vars
    BY <2>2 DEF Inv, TypeOK, InStep, Dropped
  <2> QED
    BY <2>1, <2>2
<1> QED
  BY <1>1, InitInv, PTL DEF Spec

\* Every variable keeps its type, for any listings and expressions.
THEOREM TypeCorrect == Spec => []TypeOK
<1>1. Inv => TypeOK
  BY DEF Inv
<1> QED
  BY <1>1, Invariance, PTL

\* However enumerations are cut into calls, restarted and interleaved, nothing is
\* returned twice, nothing that does not match what ProjFS asks for, and nothing is
\* passed over unless a restart has dropped the expression
\* (projfs_mount.cpp:265-319).
THEOREM NothingTwice == Spec => []EachOnce
<1>1. Inv => EachOnce
  <2> SUFFICES ASSUME Inv, NEW g \in DOMAIN open, NEW n \in DOMAIN open[g]
               PROVE  LET due == n < sessions[g].index /\ open[g][n] \in MatchedBy(told[g])
                      IN  /\ count[g][n] = 1 \/ count[g][n] = 0
                          /\ count[g][n] = 1 => due
                          /\ due => count[g][n] = 1 \/ Dropped(g)
    BY DEF EachOnce
  <2>1. open[g][n] \in Names
    <3>1. open[g] \in Seq(Names)
      BY NamesAssumption DEF Inv, TypeOK
    <3> QED
      BY <3>1
  <2>2. sessions[g].expr = told[g] \/ Dropped(g)
    BY DEF Inv, InStep
  <2>3. count[g][n] =
          IF n < sessions[g].index /\ open[g][n] \in MatchedBy(sessions[g].expr)
          THEN 1 ELSE 0
    BY DEF Inv, InStep
  <2>4. Dropped(g) => open[g][n] \in MatchedBy(told[g])
    BY <2>1 DEF Dropped, MatchedBy
  <2> QED
    BY <2>2, <2>3, <2>4
<1> QED
  BY <1>1, Invariance, PTL

\* "No more files" is said only when all that match what ProjFS asks for was
\* returned, unless a restart has dropped the expression
\* (projfs_mount.cpp:265-271, 321).
THEOREM CompleteAtEnd == Spec => []NoMoreMeansAll
<1>1. Inv => NoMoreMeansAll
  <2> SUFFICES ASSUME Inv, NEW g \in DOMAIN open, last[g] = "no_more_files", ~Dropped(g),
                      NEW n \in DOMAIN open[g], open[g][n] \in MatchedBy(told[g])
               PROVE  count[g][n] = 1
    BY DEF NoMoreMeansAll
  <2>1. sessions[g].index = Len(open[g]) + 1 /\ sessions[g].expr = told[g]
    BY DEF Inv, InStep
  <2>2. n < sessions[g].index
    <3>1. open[g] \in Seq(Names)
      BY NamesAssumption DEF Inv, TypeOK
    <3> QED
      BY <3>1, <2>1
  <2> QED
    BY <2>1, <2>2 DEF Inv, InStep
<1> QED
  BY <1>1, Invariance, PTL
=============================================================================
