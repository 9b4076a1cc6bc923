------------------------ MODULE ServerAnalyzer_proofs ------------------------
(***************************************************************************)
(* For every number of calls and of polls: the calls of a server analyzer, *)
(* made one after the other, never hand out each other's answers, as long  *)
(* as the start command is the server itself.                              *)
(***************************************************************************)
EXTENDS ServerAnalyzer, TLAPS

-----------------------------------------------------------------------------
(* Type correctness *)

\* A fresh call has used none of its polls.
LEMMA NoRounds == 0 \in 0..MaxRounds
BY AnalyzerAssumption DEF AnalyzerAssumption

\* A poll before the deadline is one of those that fit.
LEMMA NextRound ==
    ASSUME rounds \in 0..MaxRounds, rounds < MaxRounds
    PROVE  rounds + 1 \in 0..MaxRounds
BY AnalyzerAssumption DEF AnalyzerAssumption

\* The initial state is well typed.
LEMMA InitTypes == Init => TypeOK
BY NoRounds DEF Init, TypeOK, CallPCs, ServerStates, Failures

\* A step of the call under way keeps the types; it needs a call to be under way.
LEMMA CallTypes ==
    ASSUME TypeOK, CallerOrder, CallStep
    PROVE  TypeOK'
<1> USE AnalyzerAssumption DEF AnalyzerAssumption, TypeOK, CallerOrder, CallPCs, ServerStates, Failures,
                               serverVars, Says, Return
<1>1. CASE NotReady
  BY <1>1 DEF NotReady
<1>2. CASE ServerDied
  BY <1>2 DEF ServerDied
<1>3. CASE ServerAlive
  BY <1>3 DEF ServerAlive
<1>4. CASE Probe
  BY <1>4, NextRound DEF Probe
<1>5. CASE Query
  BY <1>5, ZenonT(60) DEF Query
<1>6. CASE Close
  BY <1>6 DEF Close
<1>7. CASE WaitEnds
  BY <1>7 DEF WaitEnds
<1>8. CASE WaitExpires
  BY <1>8 DEF WaitExpires
<1> QED
  BY <1>1, <1>2, <1>3, <1>4, <1>5, <1>6, <1>7, <1>8 DEF CallStep

\* A step of a server process keeps the types.
LEMMA ServerTypes ==
    ASSUME TypeOK, NEW c \in Calls, ServerStep(c), UNCHANGED callerVars
    PROVE  TypeOK'
<1> USE DEF TypeOK, CallPCs, ServerStates, Failures, callerVars
<1>1. CASE Bind(c)
  BY <1>1 DEF Bind
<1>2. CASE GetStuck(c)
  BY <1>2 DEF GetStuck
<1>3. ASSUME Exit(c) PROVE TypeOK'
  BY <1>3 DEF Exit, Freed
<1> QED
  BY <1>1, <1>2, <1>3 DEF ServerStep, Fail, Terminate, Reap

-----------------------------------------------------------------------------
(* The order of the call *)

\* Whatever is done, the caller has a call exactly while it is not idle.
LEMMA OrderStays ==
    ASSUME TypeOK, CallerOrder, [Next]_analyzerVars
    PROVE  CallerOrder'
<1> USE AnalyzerAssumption DEF AnalyzerAssumption, TypeOK, CallerOrder, callerVars
<1>1. ASSUME NEW c \in Calls, Reject(c) PROVE CallerOrder'
  BY <1>1 DEF Reject
<1>2. ASSUME NEW c \in Calls, Start(c) PROVE CallerOrder'
  BY <1>2 DEF Start
<1>3. CASE CallStep
  BY <1>3 DEF CallStep, NotReady, ServerDied, ServerAlive, Probe, Query, Close, WaitEnds,
              WaitExpires, Return, Says
<1>4. CASE UNCHANGED callerVars
  BY <1>4
<1> QED
  BY <1>1, <1>2, <1>3, <1>4 DEF Next, Finished, analyzerVars

-----------------------------------------------------------------------------
(* Every other server is gone *)

\* When a call ends, its process is gone or killed; a new call starts after that.
LEMMA OthersStayGone ==
    ASSUME TypeOK, CallerOrder, OthersAreGone, [Next]_analyzerVars
    PROVE  OthersAreGone'
<1> USE AnalyzerAssumption DEF AnalyzerAssumption, TypeOK, CallerOrder, OthersAreGone
<1>1. ASSUME NEW c \in Calls, Reject(c) PROVE OthersAreGone'
  BY <1>1 DEF Reject, serverVars
<1>2. ASSUME NEW c \in Calls, Start(c) PROVE OthersAreGone'
  BY <1>2 DEF Start
<1>3. CASE CallStep
  <2>1. CASE Close
    BY <2>1 DEF Close, Return
  <2>2. CASE WaitEnds
    BY <2>2 DEF WaitEnds, Return, serverVars
  <2>3. CASE WaitExpires
    BY <2>3 DEF WaitExpires, Return
  <2>4. CASE NotReady \/ ServerDied \/ ServerAlive \/ Probe \/ Query
    BY <2>4 DEF NotReady, ServerDied, ServerAlive, Probe, Query, serverVars
  <2> QED
    BY <1>3, <2>1, <2>2, <2>3, <2>4 DEF CallStep
<1>4. ASSUME NEW c \in Calls, ServerStep(c), UNCHANGED callerVars PROVE OthersAreGone'
  BY <1>4 DEF ServerStep, Bind, GetStuck, Fail, Terminate, Reap, Exit, callerVars
<1>5. CASE UNCHANGED analyzerVars
  BY <1>5 DEF analyzerVars, callerVars, serverVars
<1> QED
  BY <1>1, <1>2, <1>3, <1>4, <1>5 DEF Next, Finished

-----------------------------------------------------------------------------
(* Answers *)

\* No step of Next leaves the serving to a child of the start command.
LEMMA NoHelpers ==
    ASSUME helper = {}, [Next]_analyzerVars
    PROVE  helper' = {}
BY DEF Next, Reject, Start, CallStep, NotReady, ServerDied, ServerAlive, Probe, Query, Close,
       WaitEnds, WaitExpires, ServerStep, Bind, GetStuck, Fail, Terminate, Reap, Exit, Finished,
       analyzerVars, serverVars

\* Only a query hands out an answer, and the server that gives it is the call's own: every
\* other one is gone.
LEMMA AnswersStayOwn ==
    ASSUME AnswerInv, [Next]_analyzerVars
    PROVE  AnswerIsOwn'
<1> USE AnalyzerAssumption, SayingsAssumption
    DEF AnalyzerAssumption, SayingsAssumption, AnswerInv, TypeOK, AnswerIsOwn, CallerOrder, Says
<1>1. ASSUME NEW c \in Calls, Reject(c) PROVE AnswerIsOwn'
  BY <1>1 DEF Reject
<1>2. CASE Query
  <2>1. CASE port # Nobody /\ Answers(port) /\ Says(port)
    <3>1. port = cur
      BY <2>1 DEF Answers, OthersAreGone
    <3> QED
      BY <1>2, <2>1, <3>1 DEF Query
  <2>2. CASE \E f \in {"query failed", "query timed out", "raised"} : Says(f)
    BY <2>2
  <2> QED
    BY <1>2, <2>1, <2>2 DEF Query
<1>3. CASE NotReady \/ ServerDied
  BY <1>3 DEF NotReady, ServerDied
<1>4. CASE UNCHANGED answer
  BY <1>4
<1> QED
  BY <1>1, <1>2, <1>3, <1>4
  DEF Next, Start, CallStep, ServerAlive, Probe, Close, WaitEnds, WaitExpires, Finished,
      analyzerVars, callerVars

-----------------------------------------------------------------------------
\* The inductive invariant: it holds at the start and every step keeps it.
THEOREM AnswersInductive == Spec => []AnswerInv
<1>1. Init => AnswerInv
  BY InitTypes, SayingsAssumption
  DEF SayingsAssumption, Init, AnswerInv, CallerOrder, OthersAreGone, AnswerIsOwn
<1>2. AnswerInv /\ [Next]_analyzerVars => AnswerInv'
  <2> SUFFICES ASSUME AnswerInv, [Next]_analyzerVars PROVE AnswerInv'
    OBVIOUS
  <2> USE DEF AnswerInv
  <2>1. TypeOK'
    <3>1. ASSUME NEW c \in Calls, Reject(c) \/ Start(c) PROVE TypeOK'
      BY <3>1, NoRounds
      DEF TypeOK, Reject, Start, CallPCs, ServerStates, Failures, serverVars
    <3>2. CASE UNCHANGED analyzerVars
      BY <3>2 DEF TypeOK, analyzerVars, callerVars, serverVars
    <3> QED
      BY <3>1, <3>2, CallTypes, ServerTypes DEF Next, Finished
  <2>2. CallerOrder'
    BY OrderStays
  <2>3. OthersAreGone'
    BY OthersStayGone
  <2>4. helper' = {}
    BY NoHelpers
  <2>5. AnswerIsOwn'
    BY AnswersStayOwn
  <2> QED
    BY <2>1, <2>2, <2>3, <2>4, <2>5
<1> QED
  BY <1>1, <1>2, PTL DEF Spec

\* Type correctness of the analyzer's calls and processes.
THEOREM AnalyzerTypes == Spec => []TypeOK
BY AnswersInductive, PTL DEF AnswerInv

\* The answer of a call comes from its own run's server, for any number of calls made one
\* after the other, although every one of them uses the same port.
THEOREM AnswersAreOwn == Spec => []AnswerIsOwn
BY AnswersInductive, PTL DEF AnswerInv
=============================================================================
