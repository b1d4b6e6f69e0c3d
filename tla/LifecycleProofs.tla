--------------------------- MODULE LifecycleProofs ---------------------------
(***************************************************************************)
(* The safety properties of a process, from its settings file to its exit. *)
(*                                                                         *)
(* Lifecycle, for any set of clients and any number of signals: OrderlyStop*)
(* is about the last phases of main, and what makes it true is settled in  *)
(* earlier ones.  A server that drains has been asked to by the watcher    *)
(* (AskedBefore), has no connection that could still begin a request       *)
(* (NoNewRequests), and whatever way main ends, it has aborted its tasks   *)
(* before (EndsAborted).  IInv carries these through the phases.           *)
(*                                                                         *)
(* Settings, for any files and environments: ListensExactlyWhenSound is    *)
(* about the last stage, and what it says is settled text by text and test *)
(* by test in earlier ones.  Up to the position expansion has come to,     *)
(* texts have the values they mean, and beyond it they are as written      *)
(* (ExpandsInOrder, KeepsTheValues); up to the position of the tests, what *)
(* has passed is sound (ChecksInOrder, BuildsFromSound); and the limits    *)
(* are never touched (KeepsTheFile).  SettingsIInv is all of these.  That  *)
(* a text that is expanded piece by piece is the text that was meant is a  *)
(* fact about two folds of the community modules (TextMeans).              *)
(***************************************************************************)
EXTENDS Lifecycle, Settings, SequenceTheorems, WellFoundedInduction, TLAPS

Names == {"settings", "client", "upstreams", "decider", "collector",
          "pipeline", "cors", "bind"}

\* While it builds there is no watcher yet.
BuildsUnwatched == main \in Names \cup {"spawn"} => watcher = "none"

\* Once the listener is closed, no connection is left that could send a request.
NoNewRequests ==
  main = "drain" => \A c \in Clients : conn[c] \notin {"queued", "idle"}

\* The token is cancelled for a signal, or for a server that failed.
AskedBefore ==
  /\ token => (watcher = "done" /\ pending) \/ main \in {"failing", "failed"}
  /\ main \in {"drain", "served", "stopping", "stopped"} => token

EndsAborted ==
  main \in {"stopping", "failing", "stopped", "failed"} => aborted

ExitsInPhase == exit = "clean" => main = "stopped"

IInv ==
  /\ TypeOK
  /\ OrderlyStop
  /\ BuildsUnwatched
  /\ NoNewRequests
  /\ AskedBefore
  /\ EndsAborted
  /\ ExitsInPhase

-----------------------------------------------------------------------------
(* The steps of the build *)

LEMMA BuildStepsAreNames ==
  /\ DOMAIN BuildSteps = 1..9
  /\ \A i \in 1..8 : BuildSteps[i] \in Names
  /\ BuildSteps[9] = "spawn"
  /\ \A n \in Names : \E i \in 1..8 : BuildSteps[i] = n
BY DEF BuildSteps, Names

LEMMA PhasesAreNames ==
  Phases = Names \cup {"spawn", "serve", "drain", "served", "stopping", "stopped",
                       "broken", "failing", "failed"}
BY BuildStepsAreNames DEF Phases

LEMMA BuildingIsNamed == Building => main \in Names
<1> SUFFICES ASSUME NEW i \in 1..9, BuildSteps[i] = main, main # "spawn"
             PROVE  main \in Names
  BY BuildStepsAreNames DEF Building
<1>1. i \in 1..8
  BY BuildStepsAreNames
<1>2. QED
  BY <1>1, BuildStepsAreNames

\* A step of the build leads to the next one, or to the spawning of the watcher.
LEMMA BuildStepMoves ==
  ASSUME BuildStep
  PROVE  main \in Names /\ main' \in Names \cup {"spawn"}
<1>1. main \in Names
  BY BuildingIsNamed DEF BuildStep
<1>2. StepNumber \in 1..9 /\ BuildSteps[StepNumber] = main
  BY <1>1, BuildStepsAreNames DEF StepNumber
<1>3. StepNumber \in 1..8
  BY <1>1, <1>2, BuildStepsAreNames DEF Names
<1>4. BuildSteps[StepNumber + 1] \in Names \cup {"spawn"}
  BY <1>3, BuildStepsAreNames
<1>5. QED
  BY <1>1, <1>4 DEF BuildStep

-----------------------------------------------------------------------------

LEMMA InitEstablishes == Init => IInv
<1> SUFFICES ASSUME Init PROVE IInv
  OBVIOUS
<1>1. TypeOK
  <2>1. main \in Phases
    BY PhasesAreNames DEF Init, Names
  <2>2. signals \in 0 .. MaxSignals
    BY BoundsAssumption DEF Init
  <2>3. QED
    BY <2>1, <2>2 DEF Init, TypeOK, Kinds
<1>2. QED
  BY <1>1 DEF Init, IInv, OrderlyStop, DrainLosesNothing, StoppedMeansQuiet, CleanExitWasAsked,
              BuildsUnwatched, NoNewRequests, AskedBefore, EndsAborted, ExitsInPhase

\* Type correctness, action by action.
LEMMA TypePreserved ==
  ASSUME IInv, [Next]_vars
  PROVE  TypeOK'
<1> USE PhasesAreNames DEF IInv, Up
<1> USE DEF TypeOK
<1>1. CASE BuildStep
  BY <1>1, BuildStepMoves DEF BuildStep
<1>2. CASE BuildFails \/ SpawnWatcher \/ Drained \/ ServerFails \/ Stop \/ Stopped \/ Exit
  <2>1. CASE BuildFails
    BY <2>1 DEF BuildFails
  <2>2. CASE SpawnWatcher
    BY <2>2 DEF SpawnWatcher
  <2>3. CASE Drained \/ ServerFails
    BY <2>3 DEF Drained, ServerFails
  <2>4. CASE Stop
    BY <2>4 DEF Stop
  <2>5. CASE Stopped
    BY <2>5 DEF Stopped
  <2>6. CASE Exit
    BY <2>6 DEF Exit
  <2>7. QED
    BY <1>2, <2>1, <2>2, <2>3, <2>4, <2>5, <2>6
<1>3. CASE Drain
  BY <1>3 DEF Drain
<1>4. ASSUME NEW kind \in Kinds, Watch(kind)
      PROVE  TypeOK'
  BY <1>4 DEF Watch
<1>5. ASSUME NEW kind \in Kinds, Signal(kind)
      PROVE  TypeOK'
  BY <1>5, BoundsAssumption DEF Signal
<1>6. CASE Cancel
  BY <1>6 DEF Cancel
<1>7. CASE Tick \/ FirstTick \/ BeginRefresh \/ EndRefresh \/ RefresherEnds
  <2>1. CASE Tick
    BY <2>1 DEF Tick
  <2>2. CASE FirstTick
    BY <2>2 DEF FirstTick
  <2>3. CASE BeginRefresh
    BY <2>3 DEF BeginRefresh
  <2>4. CASE EndRefresh \/ RefresherEnds
    BY <2>4 DEF EndRefresh, RefresherEnds
  <2>5. QED
    BY <1>7, <2>1, <2>2, <2>3, <2>4
<1>8. ASSUME NEW c \in Clients,
             Connect(c) \/ Accept(c) \/ Request(c) \/ Body(c) \/ Answer(c) \/ Leave(c)
      PROVE  TypeOK'
  BY <1>8 DEF Connect, Accept, Request, Body, Answer, Leave, Move
<1>9. CASE UNCHANGED vars
  BY <1>9 DEF vars
<1>10. QED
  BY <1>1, <1>2, <1>3, <1>4, <1>5, <1>6, <1>7, <1>8, <1>9 DEF Next

\* The rest of IInv when main moves: each phase has what the next one needs.
LEMMA MainPreserves ==
  ASSUME IInv,
         BuildStep \/ BuildFails \/ SpawnWatcher \/ Drain \/ Drained
           \/ ServerFails \/ Stop \/ Stopped \/ Exit
  PROVE  /\ OrderlyStop' /\ BuildsUnwatched' /\ NoNewRequests' /\ AskedBefore'
         /\ EndsAborted' /\ ExitsInPhase'
<1> USE DEF IInv, TypeOK, Up, OrderlyStop, DrainLosesNothing, StoppedMeansQuiet, CleanExitWasAsked,
            BuildsUnwatched, NoNewRequests, AskedBefore, EndsAborted, ExitsInPhase,
            RefresherGone, Names
<1>1. CASE BuildStep
  BY <1>1, BuildStepMoves DEF BuildStep
<1>2. CASE BuildFails
  BY <1>2, BuildingIsNamed DEF BuildFails
<1>3. CASE SpawnWatcher
  BY <1>3 DEF SpawnWatcher
<1>4. CASE Drain
  BY <1>4 DEF Drain
<1>5. CASE Drained
  <2>1. \A c \in Clients : conn[c] \in {"none", "answered", "refused", "left"}
    BY <1>5 DEF Drained, InFlight
  <2>2. QED
    BY <1>5, <2>1 DEF Drained
<1>6. CASE ServerFails
  BY <1>6 DEF ServerFails
<1>7. CASE Stop
  BY <1>7 DEF Stop
<1>8. CASE Stopped
  BY <1>8 DEF Stopped
<1>9. CASE Exit
  BY <1>9 DEF Exit
<1>10. QED
  BY <1>1, <1>2, <1>3, <1>4, <1>5, <1>6, <1>7, <1>8, <1>9

\* The same when another task moves: main stays where it is.
LEMMA OthersPreserve ==
  ASSUME IInv,
         \/ \E kind \in Kinds : Watch(kind) \/ Signal(kind)
         \/ Cancel
         \/ Tick \/ FirstTick \/ BeginRefresh \/ EndRefresh \/ RefresherEnds
         \/ \E c \in Clients : Connect(c) \/ Accept(c) \/ Request(c) \/ Body(c)
                               \/ Answer(c) \/ Leave(c)
         \/ UNCHANGED vars
  PROVE  /\ OrderlyStop' /\ BuildsUnwatched' /\ NoNewRequests' /\ AskedBefore'
         /\ EndsAborted' /\ ExitsInPhase'
<1> USE DEF IInv, TypeOK, Up, OrderlyStop, DrainLosesNothing, StoppedMeansQuiet, CleanExitWasAsked,
            BuildsUnwatched, NoNewRequests, AskedBefore, EndsAborted, ExitsInPhase,
            RefresherGone, Names
<1>1. ASSUME NEW kind \in Kinds, Watch(kind) \/ Signal(kind)
      PROVE  /\ OrderlyStop' /\ BuildsUnwatched' /\ NoNewRequests' /\ AskedBefore'
             /\ EndsAborted' /\ ExitsInPhase'
  BY <1>1 DEF Watch, Signal
<1>2. CASE Cancel
  BY <1>2 DEF Cancel
<1>3. CASE Tick \/ FirstTick \/ BeginRefresh \/ EndRefresh \/ RefresherEnds
  BY <1>3 DEF Tick, FirstTick, BeginRefresh, EndRefresh, RefresherEnds
<1>4. ASSUME NEW c \in Clients,
             Connect(c) \/ Accept(c) \/ Request(c) \/ Body(c) \/ Answer(c) \/ Leave(c)
      PROVE  /\ OrderlyStop' /\ BuildsUnwatched' /\ NoNewRequests' /\ AskedBefore'
             /\ EndsAborted' /\ ExitsInPhase'
  BY <1>4 DEF Connect, Accept, Request, Body, Answer, Leave, Move
<1>5. CASE UNCHANGED vars
  BY <1>5 DEF vars
<1>6. QED
  BY <1>1, <1>2, <1>3, <1>4, <1>5

-----------------------------------------------------------------------------

\* The inductive invariant holds in every reachable state.
THEOREM Invariance == Spec => []IInv
<1>1. IInv /\ [Next]_vars => IInv'
  <2> SUFFICES ASSUME IInv, [Next]_vars PROVE IInv'
    OBVIOUS
  <2>1. TypeOK'
    BY TypePreserved
  <2>2. CASE BuildStep \/ BuildFails \/ SpawnWatcher \/ Drain \/ Drained
               \/ ServerFails \/ Stop \/ Stopped \/ Exit
    BY <2>1, <2>2, MainPreserves DEF IInv
  <2>3. CASE \/ \E kind \in Kinds : Watch(kind) \/ Signal(kind)
             \/ Cancel
             \/ Tick \/ FirstTick \/ BeginRefresh \/ EndRefresh \/ RefresherEnds
             \/ \E c \in Clients : Connect(c) \/ Accept(c) \/ Request(c) \/ Body(c)
                                   \/ Answer(c) \/ Leave(c)
             \/ UNCHANGED vars
    BY <2>1, <2>3, OthersPreserve DEF IInv
  <2>4. QED
    BY <2>2, <2>3 DEF Next
<1>2. QED
  BY InitEstablishes, <1>1, PTL DEF Spec

\* Every reachable state of the process has its type, and the watcher of
\* main.rs waits only once both of its signals have a handler.
THEOREM TypeCorrect == Spec => []TypeOK
BY Invariance, PTL DEF IInv

\* run_until_stopped of app.rs returns Ok only when every caller it accepted
\* was answered or has left, returns at all only when the refresher is gone,
\* and main exits with 0 only when a signal asked for it.
THEOREM StopsInOrder == Spec => []OrderlyStop
BY Invariance, PTL DEF IInv

\* No step begins a refresh once a build of app.rs has failed or the server has
\* stopped: the JoinSet that owns the refresher is aborted by then.
THEOREM NoLateRefresh == Spec => NoRefreshAfterTheEnd
<1>1. IInv /\ [Next]_vars =>
        [refresher # "refreshing" /\ refresher' = "refreshing" =>
           main \notin {"stopped", "failed"}]_vars
  <2> SUFFICES ASSUME IInv, [Next]_vars, refresher # "refreshing", refresher' = "refreshing"
               PROVE  main \notin {"stopped", "failed"}
    OBVIOUS
  <2>1. ~aborted
    BY DEF Next, vars, BuildStep, BuildFails, SpawnWatcher, Drain, Drained, ServerFails, Stop,
           Stopped, Exit, Watch, Signal, Cancel, Tick, FirstTick, BeginRefresh, EndRefresh,
           RefresherEnds, Connect, Accept, Request, Body, Answer, Leave, Move
  <2>2. QED
    BY <2>1 DEF IInv, EndsAborted
<1>2. QED
  BY Invariance, <1>1, PTL DEF Spec, NoRefreshAfterTheEnd

-----------------------------------------------------------------------------
(* Settings: what is known of the settings at each stage *)

\* The Settings value: settings that serde has read, with their defaults.
Prepared ==
  [host : Texts, max_attempt : Nat, timeout : Nat, max_bytes : Nat, hedge_after : Nat,
   origins : Seq(Texts), decider : Words,
   upstreams : Seq(UpstreamSettings)]

HostAsWritten    == Default(file.host, <<[lit |-> "127.0.0.1"]>>)
OriginsAsWritten == Default(file.origins, <<>>)
DeciderAsWritten == Default(file.decider, "ROUND_ROBIN")

\* The stages that come after the texts are expanded, checked and built from.
PastExpansion == {"check", "build", "wire", "bind", "listening"}
PastChecks    == PastExpansion \ {"check"}
PastBuild     == PastChecks \ {"build"}

\* What no stage changes.
Keeps(s) ==
  /\ s \in Prepared
  /\ <<s.max_attempt, s.timeout, s.max_bytes>> = Numbers
  /\ s.hedge_after = SharedHedge
  /\ s.decider = DeciderAsWritten
  /\ Len(s.upstreams) = Len(file.upstreams)

KeepsTheFile ==
  stage # "load" => Keeps(settings) /\ (stage # "refused" => settings.decider \in Deciders)

HoldsValues(i) ==
  settings.upstreams[i].label = Labels[i] /\ settings.upstreams[i].url = Urls[i]

\* The texts before the position have their values, the others are as written.
ExpandsInOrder ==
  stage = "expand" =>
    /\ at \in 0 .. Len(file.upstreams) + 1
    /\ settings.host = IF at = 0 THEN HostAsWritten ELSE Host
    /\ settings.origins = OriginsAsWritten
    /\ \A i \in DOMAIN file.upstreams :
         IF i < at
           THEN HoldsValues(i) /\ settings.upstreams[i].hedge_after = file.upstreams[i].hedge_after
           ELSE settings.upstreams[i] = file.upstreams[i]

KeepsTheValues ==
  stage \in PastExpansion =>
    /\ settings.host = Host
    /\ settings.origins = Origins
    /\ \A i \in DOMAIN file.upstreams :
         /\ HoldsValues(i)
         /\ settings.upstreams[i].hedge_after =
              IF stage \in PastBuild THEN Hedges[i] ELSE file.upstreams[i].hedge_after

OriginsSound ==
  \/ Origins = <<Wildcard>>
  \/ IsInjective(Origins) /\ \A i \in DOMAIN Origins : Origins[i] # None /\ CanMatch(Origins[i])

UpstreamSound(i) ==
  /\ ~Blank(Labels[i]) /\ ~Blank(Urls[i])
  /\ ~Placeholder(Labels[i]) /\ ~Placeholder(Urls[i])
  /\ \A j \in 1 .. i - 1 : Labels[j] # Labels[i] /\ Urls[j] # Urls[i]
  /\ file.upstreams[i].hedge_after # 0

\* What is behind the position has been tested, and found sound.
ChecksInOrder ==
  /\ stage = "check" => at \in 0 .. Len(file.upstreams)
  /\ (stage = "check" /\ at # 0) \/ stage \in PastChecks =>
       file.upstreams # <<>> /\ SharedHedge # 0 /\ OriginsSound
  /\ \A i \in DOMAIN file.upstreams :
       (stage = "check" /\ i < at) \/ stage \in PastChecks => UpstreamSound(i)

BuildsFromSound ==
  /\ stage \in PastBuild => /\ 0 \notin {settings.timeout, settings.max_bytes}
                            /\ \A i \in DOMAIN file.upstreams : Hedges[i] # 0
  /\ stage \in {"bind", "listening"} => settings.max_attempt # 0

RefusesUnsound == stage = "refused" => ~Sound

SettingsIInv ==
  /\ file \in Files /\ env \in Environments
  /\ stage \in {"load", "expand", "check", "build", "wire", "bind",
                "listening", "refused", "unbound"}
  /\ at \in Nat /\ (stage = "load" => at = 0)
  /\ KeepsTheFile /\ ExpandsInOrder /\ KeepsTheValues
  /\ ChecksInOrder /\ BuildsFromSound
  /\ RefusesUnsound

-----------------------------------------------------------------------------
(* Settings: putting the parts of a text together *)

\* What one piece turns into, and a text that way, in the environment e.
Substituted(e, piece) == IF Tagged(piece, "ref") THEN e[piece.ref] ELSE <<piece>>

ExpandedIn(e, text) ==
  FlattenSeq([i \in DOMAIN text |->
                IF Tagged(text[i], "ref") THEN e[text[i].ref] ELSE <<text[i]>>])

FoldedIn(e, text) ==
  FoldLeft(LAMBDA before, piece :
             before \o (IF Tagged(piece, "ref") THEN e[piece.ref] ELSE <<piece>>),
           <<>>, text)

MeantIn(e, text) ==
  IF \E i \in DOMAIN text : Tagged(text[i], "ref") /\ e[text[i].ref] = <<>>
    THEN None ELSE FoldedIn(e, text)

\* Induction over the numbers up to n.
LEMMA CountingUp ==
  ASSUME NEW n \in Nat, NEW Good, 0 \in Good,
         \A i \in 0 .. n : i < n /\ i \in Good => i + 1 \in Good
  PROVE  \A i \in 0 .. n : i \in Good
<1> DEFINE Bad == {i \in Nat : i <= n /\ i \notin Good}
<1> SUFFICES ASSUME Bad # {} PROVE FALSE
  OBVIOUS
<1>1. PICK i \in Bad : \A j \in Bad : <<j, i>> \notin OpToRel(<, Nat)
  <2>1. Bad \subseteq Nat
    OBVIOUS
  <2> HIDE DEF Bad
  <2>2. QED
    BY <2>1, NatLessThanWellFounded, WFMin
<1>2. i \in Nat /\ i # 0 /\ i <= n /\ i \notin Good
  OBVIOUS
<1>3. i - 1 \in Good
  <2>1. i - 1 \in Nat /\ i - 1 < i
    BY <1>2
  <2>2. <<i - 1, i>> \in OpToRel(<, Nat)
    BY <1>2, <2>1 DEF OpToRel
  <2>3. i - 1 \notin Bad
    BY <1>1, <2>2
  <2>4. QED
    BY <1>2, <2>1, <2>3
<1>4. (i - 1) + 1 = i /\ i - 1 \in 0 .. n /\ i - 1 < n
  BY <1>2
<1>5. QED
  BY <1>2, <1>3, <1>4

\* A piece becomes a text.
LEMMA SubstitutedIsText ==
  ASSUME NEW e \in [Variables -> Texts], NEW piece \in Tokens
  PROVE  Substituted(e, piece) \in Texts
<1>1. CASE Tagged(piece, "ref")
  <2>1. piece \in [ref : Variables]
    BY <1>1 DEF Tagged, Tokens
  <2>2. QED
    BY <1>1, <2>1 DEF Substituted
<1>2. CASE ~Tagged(piece, "ref")
  BY <1>2 DEF Substituted, Texts
<1>3. QED
  BY <1>1, <1>2

\* The largest of 1 .. m is m, and in any set of numbers up to m that has it.
LEMMA MaxOfPrefix ==
  ASSUME NEW m \in Nat, NEW s \in SUBSET (1 .. m), m \in s
  PROVE  Max(s) = m
<1>1. \A x \in s : x \in Nat /\ x <= m
  OBVIOUS
<1>2. \A x \in s : (\A y \in s : x >= y) <=> x = m
  BY <1>1
<1>3. QED
  BY <1>2 DEF Max

\* The two ways of putting the parts of a text together, one after the other:
\* expand_str's, left to right, and the fold that says what a text means.
LEMMA PartsInOrder ==
  ASSUME NEW n \in Nat \ {0}, NEW part, \A i \in 1 .. n : part[i] \in Texts
  PROVE  \E h : \A i \in 1 .. n : /\ h[i] \in Texts
                                  /\ h[i] = IF i = 1 THEN part[i] ELSE h[i - 1] \o part[i]
<1> DEFINE IsPart(h, m) == \A i \in 1 .. m : /\ h[i] \in Texts
                                             /\ h[i] = IF i = 1 THEN part[i]
                                                       ELSE h[i - 1] \o part[i]
           Parts == {m \in 0 .. n : \E h : IsPart(h, m)}
<1>1. 0 \in Parts
  OBVIOUS
<1>2. ASSUME NEW m \in 0 .. n, m < n, m \in Parts PROVE m + 1 \in Parts
  <2>1. PICK h : IsPart(h, m)
    BY <1>2
  <2>2. m + 1 \in 1 .. n /\ m + 1 \in 0 .. n /\ part[m + 1] \in Texts
    BY <1>2
  <2> DEFINE t == IF m = 0 THEN part[1] ELSE h[m] \o part[m + 1]
             g == [i \in 1 .. (m + 1) |-> IF i = m + 1 THEN t ELSE h[i]]
  <2>3. t \in Texts
    <3>1. CASE m = 0
      BY <2>2, <3>1
    <3>2. CASE m # 0
      <4>1. h[m] \in Texts
        BY <2>1, <3>2
      <4>2. QED
        BY <2>2, <3>2, <4>1 DEF Texts
    <3>3. QED
      BY <3>1, <3>2
  <2> HIDE DEF t
  <2>4. (\A i \in 1 .. m : g[i] = h[i]) /\ g[m + 1] = t
    OBVIOUS
  <2> HIDE DEF g
  <2>5. ASSUME NEW i \in 1 .. (m + 1)
        PROVE  g[i] \in Texts /\ g[i] = IF i = 1 THEN part[i] ELSE g[i - 1] \o part[i]
    <3>1. CASE i = m + 1
      <4>1. m # 0 => g[i - 1] = h[m]
        BY <2>4, <3>1
      <4>2. QED
        BY <2>3, <2>4, <3>1, <4>1 DEF t
    <3>2. CASE i # m + 1
      <4>1. i \in 1 .. m /\ g[i] = h[i] /\ (i # 1 => g[i - 1] = h[i - 1])
        BY <2>4, <3>2
      <4>2. QED
        BY <2>1, <4>1
    <3>3. QED
      BY <3>1, <3>2
  <2>6. IsPart(g, m + 1)
    BY <2>5
  <2> HIDE DEF IsPart
  <2>7. QED
    BY <2>2, <2>6
<1>3. n \in Parts
  <2> HIDE DEF Parts
  <2>1. \A m \in 0 .. n : m < n /\ m \in Parts => m + 1 \in Parts
    BY <1>2
  <2>2. \A m \in 0 .. n : m \in Parts
    BY <1>1, <2>1, CountingUp
  <2>3. QED
    BY <2>2
<1>4. QED
  BY <1>3

\* Two sequences of partial results that obey the same equation are the same.
LEMMA PartsAgree ==
  ASSUME NEW n \in Nat \ {0}, NEW part, NEW h, NEW k,
         \A i \in 1 .. n : h[i] = IF i = 1 THEN part[i] ELSE h[i - 1] \o part[i],
         \A i \in 1 .. n : k[i] = IF i = 1 THEN part[i] ELSE k[i - 1] \o part[i]
  PROVE  h[n] = k[n]
<1> DEFINE Good == {m \in 0 .. n : m # 0 => h[m] = k[m]}
<1>1. 0 \in Good
  OBVIOUS
<1>2. ASSUME NEW m \in 0 .. n, m < n, m \in Good PROVE m + 1 \in Good
  <2>1. m + 1 \in 1 .. n /\ (m + 1) - 1 = m /\ (m # 0 => h[m] = k[m])
    BY <1>2
  <2>2. h[m + 1] = k[m + 1]
    BY <2>1
  <2>3. QED
    BY <2>1, <2>2
<1>3. n \in Good
  <2> HIDE DEF Good
  <2>1. \A m \in 0 .. n : m < n /\ m \in Good => m + 1 \in Good
    BY <1>2
  <2>2. \A m \in 0 .. n : m \in Good
    BY <1>1, <2>1, CountingUp
  <2>3. QED
    BY <2>2
<1>4. QED
  BY <1>3

\* expand_str's way, on the parts.
LEMMA FlattenSeqIs ==
  ASSUME NEW part, NEW n \in Nat, n = Len(part), n # 0,
         NEW h, \A i \in 1 .. n : h[i] = IF i = 1 THEN part[i] ELSE h[i - 1] \o part[i]
  PROVE  FlattenSeq(part) = h[n]
<1> DEFINE IsFlat(g) == g = [i \in 1 .. n |-> IF i = 1 THEN part[i] ELSE g[i - 1] \o part[i]]
           flat == [i \in 1 .. n |-> h[i]]
<1>1. FlattenSeq(part) = (CHOOSE g : IsFlat(g))[n]
  BY Zenon DEF FlattenSeq
<1>2. IsFlat(flat)
  <2>1. \A i \in 1 .. n : flat[i] = IF i = 1 THEN part[i] ELSE flat[i - 1] \o part[i]
    <3> SUFFICES ASSUME NEW i \in 1 .. n
                 PROVE  flat[i] = IF i = 1 THEN part[i] ELSE flat[i - 1] \o part[i]
      OBVIOUS
    <3>1. flat[i] = h[i] /\ (i # 1 => flat[i - 1] = h[i - 1])
      OBVIOUS
    <3> HIDE DEF flat
    <3>2. QED
      BY <3>1
  <2>2. flat = [i \in 1 .. n |-> flat[i]]
    OBVIOUS
  <2> HIDE DEF flat
  <2>3. QED
    BY <2>1, <2>2
<1>3. PICK g : g = (CHOOSE f : IsFlat(f)) /\ IsFlat(g)
  <2> HIDE DEF IsFlat, flat
  <2>1. QED
    BY <1>2
<1>4. \A i \in 1 .. n : g[i] = IF i = 1 THEN part[i] ELSE g[i - 1] \o part[i]
  BY ONLY <1>3
<1> HIDE DEF IsFlat
<1>5. n \in Nat \ {0} /\ \A i \in 1 .. n : h[i] = IF i = 1 THEN part[i] ELSE h[i - 1] \o part[i]
  OBVIOUS
<1>6. g[n] = h[n]
  BY ONLY <1>4, <1>5, PartsAgree
<1>7. QED
  BY <1>1, <1>3, <1>6

\* A text's parts, and the text expand_str makes of them.
LEMMA ExpandedIs ==
  ASSUME NEW e \in [Variables -> Texts], NEW text \in Texts, NEW n \in Nat, n = Len(text), n # 0,
         NEW h, \A i \in 1 .. n : h[i] = IF i = 1 THEN Substituted(e, text[i])
                                       ELSE h[i - 1] \o Substituted(e, text[i])
  PROVE  ExpandedIn(e, text) = h[n]
<1>1. DOMAIN text = 1 .. n
  BY DEF Texts
<1>2. PICK part : part = [i \in 1 .. n |-> Substituted(e, text[i])]
  OBVIOUS
<1>3. ExpandedIn(e, text) = FlattenSeq(part)
  <2>1. [i \in DOMAIN text |->
           IF Tagged(text[i], "ref") THEN e[text[i].ref] ELSE <<text[i]>>] = part
    BY <1>1, <1>2, Zenon DEF Substituted
  <2>2. QED
    BY <2>1, Zenon DEF ExpandedIn
<1>4. n = Len(part)
  <2>1. \A i \in 1 .. n : text[i] \in Tokens
    BY DEF Texts
  <2>2. part \in [1 .. n -> Texts]
    BY <1>2, <2>1, SubstitutedIsText
  <2>3. part \in Seq(Texts)
    BY <2>2
  <2>4. QED
    BY <2>2, <2>3
<1>5. \A i \in 1 .. n : part[i] = Substituted(e, text[i])
  BY <1>2
<1>6. \A i \in 1 .. n : h[i] = IF i = 1 THEN part[i] ELSE h[i - 1] \o part[i]
  BY <1>5
<1>7. FlattenSeq(part) = h[n]
  BY <1>4, <1>6, FlattenSeqIs
<1>8. QED
  BY <1>3, <1>7

\* The fold's way: it takes the last of the tokens that are left, and puts it
\* behind what the others come to.
LEMMA FoldedIs ==
  ASSUME NEW e \in [Variables -> Texts], NEW text \in Texts, NEW n \in Nat, n = Len(text), n # 0,
         NEW h, \A i \in 1 .. n : /\ h[i] \in Texts
                                 /\ h[i] = IF i = 1 THEN Substituted(e, text[i])
                                           ELSE h[i - 1] \o Substituted(e, text[i])
  PROVE  FoldedIn(e, text) = h[n]
<1> DEFINE part(i) == IF Tagged(text[i], "ref") THEN e[text[i].ref] ELSE <<text[i]>>
           IsFold(g) == g = [s \in SUBSET DOMAIN text |->
                               IF s = {} THEN <<>> ELSE g[s \ {Max(s)}] \o part(Max(s))]
           Folds(g, m) == \A s \in SUBSET (1 .. m) :
                            g[s] = IF s = {} THEN <<>> ELSE g[s \ {Max(s)}] \o part(Max(s))
           Folded == {m \in 0 .. n : \E g : Folds(g, m)}
<1>1. DOMAIN text = 1 .. n
  BY DEF Texts
<1>2. FoldedIn(e, text) = (CHOOSE g : IsFold(g))[1 .. n]
  <2>1. FoldedIn(e, text) = (CHOOSE g : IsFold(g))[DOMAIN text]
    BY Zenon DEF FoldedIn, FoldLeft, MapThenFoldSet
  <2>2. QED
    BY <1>1, <2>1
<1>3. \A i \in 1 .. n : part(i) = Substituted(e, text[i]) /\ part(i) \in Texts
  <2>1. \A i \in 1 .. n : text[i] \in Tokens
    BY DEF Texts
  <2>2. \A i \in 1 .. n : part(i) = Substituted(e, text[i])
    BY Zenon DEF Substituted
  <2> HIDE DEF part
  <2>3. QED
    BY <2>1, <2>2, SubstitutedIsText
<1> HIDE DEF part
<1>4. 0 \in Folded
  <2>1. Folds([s \in {{}} |-> <<>>], 0)
    OBVIOUS
  <2> HIDE DEF Folds
  <2>2. QED
    BY <2>1
<1>5. ASSUME NEW m \in 0 .. n, m < n, m \in Folded PROVE m + 1 \in Folded
  <2>1. PICK g : Folds(g, m)
    BY <1>5
  <2> DEFINE k == [s \in SUBSET (1 .. m + 1) |-> IF m + 1 \in s THEN g[s \ {m + 1}] \o part(m + 1)
                                                ELSE g[s]]
  <2>2. ASSUME NEW s \in SUBSET (1 .. m + 1)
        PROVE  k[s] = IF m + 1 \in s THEN g[s \ {m + 1}] \o part(m + 1) ELSE g[s]
    OBVIOUS
  <2> HIDE DEF k
  <2>3. ASSUME NEW s \in SUBSET (1 .. m + 1)
        PROVE  k[s] = IF s = {} THEN <<>> ELSE k[s \ {Max(s)}] \o part(Max(s))
    <3>1. CASE m + 1 \in s
      <4>1. Max(s) = m + 1
        BY <3>1, MaxOfPrefix
      <4>2. s \ {m + 1} \in SUBSET (1 .. m + 1) /\ m + 1 \notin s \ {m + 1} /\ s # {}
        BY <3>1
      <4>3. k[s \ {m + 1}] = g[s \ {m + 1}]
        BY <2>2, <4>2
      <4>4. k[s] = g[s \ {m + 1}] \o part(m + 1)
        BY <2>2, <3>1
      <4>5. QED
        BY <4>1, <4>2, <4>3, <4>4
    <3>2. CASE m + 1 \notin s
      <4>1. s \in SUBSET (1 .. m)
        BY <3>2
      <4>2. k[s] = g[s]
        BY <2>2, <3>2
      <4>3. PICK x : x = Max(s)
        OBVIOUS
      <4>4. k[s \ {x}] = g[s \ {x}]
        BY <2>2, <3>2
      <4>5. g[s] = IF s = {} THEN <<>> ELSE g[s \ {x}] \o part(x)
        BY <2>1, <4>1, <4>3
      <4>6. QED
        BY <4>2, <4>3, <4>4, <4>5
    <3>3. QED
      BY <3>1, <3>2
  <2>4. Folds(k, m + 1)
    BY <2>3
  <2> HIDE DEF Folds
  <2>5. QED
    BY <1>5, <2>4
<1>6. PICK g : Folds(g, n)
  <2>1. n \in Folded
    <3> HIDE DEF Folded
    <3>1. \A m \in 0 .. n : m < n /\ m \in Folded => m + 1 \in Folded
      BY <1>5
    <3>2. \A m \in 0 .. n : m \in Folded
      BY <1>4, <3>1, CountingUp
    <3>3. QED
      BY <3>2
  <2> HIDE DEF Folds
  <2>2. QED
    BY <2>1
<1>7. \E f : IsFold(f)
  <2> DEFINE f == [s \in SUBSET (1 .. n) |-> g[s]]
  <2>1. ASSUME NEW s \in SUBSET (1 .. n)
        PROVE  f[s] = IF s = {} THEN <<>> ELSE f[s \ {Max(s)}] \o part(Max(s))
    <3>1. PICK x : x = Max(s)
      OBVIOUS
    <3>2. f[s] = g[s] /\ f[s \ {x}] = g[s \ {x}]
      OBVIOUS
    <3> HIDE DEF f
    <3>3. g[s] = IF s = {} THEN <<>> ELSE g[s \ {x}] \o part(x)
      BY <1>6, <3>1
    <3>4. QED
      BY <3>1, <3>2, <3>3
  <2>2. f = [s \in SUBSET (1 .. n) |-> f[s]]
    OBVIOUS
  <2> HIDE DEF f
  <2>3. [s \in SUBSET (1 .. n) |-> f[s]] =
          [s \in SUBSET (1 .. n) |-> IF s = {} THEN <<>> ELSE f[s \ {Max(s)}] \o part(Max(s))]
    BY <2>1
  <2>4. IsFold(f)
    BY <1>1, <2>2, <2>3
  <2> HIDE DEF IsFold
  <2>5. QED
    BY <2>4
<1>8. PICK f : f = (CHOOSE k : IsFold(k)) /\ IsFold(f)
  <2> HIDE DEF IsFold
  <2>1. QED
    BY <1>7
<1>9. \A s \in SUBSET (1 .. n) :
        f[s] = IF s = {} THEN <<>> ELSE f[s \ {Max(s)}] \o part(Max(s))
  BY ONLY <1>1, <1>8
<1> HIDE DEF IsFold
<1>10. f[1 .. n] = h[n]
  <2> DEFINE Same == {m \in 0 .. n : f[1 .. m] = IF m = 0 THEN <<>> ELSE h[m]}
  <2>1. 0 \in Same
    <3>1. 1 .. 0 = {} /\ 1 .. 0 \in SUBSET (1 .. n)
      OBVIOUS
    <3>2. f[1 .. 0] = <<>>
      BY <1>9, <3>1
    <3>3. QED
      BY <3>2
  <2>2. ASSUME NEW m \in 0 .. n, m < n, m \in Same PROVE m + 1 \in Same
    <3>1. /\ m + 1 \in 1 .. n /\ (m + 1) - 1 = m
          /\ 1 .. m + 1 \in SUBSET (1 .. n) /\ 1 .. m + 1 # {}
      <4>1. m \in Nat /\ m + 1 <= n
        BY <2>2
      <4>2. m + 1 \in 1 .. n /\ (m + 1) - 1 = m /\ m + 1 \in 1 .. m + 1
        BY <4>1
      <4>3. 1 .. m + 1 \in SUBSET (1 .. n)
        BY <4>1
      <4>4. 1 .. m + 1 # {}
        BY <4>2
      <4>5. QED
        BY <4>2, <4>3, <4>4
    <3>2. Max(1 .. m + 1) = m + 1
      BY MaxOfPrefix
    <3>3. (1 .. m + 1) \ {m + 1} = 1 .. m
      OBVIOUS
    <3>4. f[1 .. m + 1] = f[1 .. m] \o part(m + 1)
      BY <1>9, <3>1, <3>2, <3>3
    <3>5. part(m + 1) = Substituted(e, text[m + 1]) /\ part(m + 1) \in Seq(Tokens)
      BY <1>3, <3>1 DEF Texts
    <3>6. f[1 .. m + 1] = h[m + 1]
      <4>1. CASE m = 0
        <5>1. f[1 .. m] = <<>>
          BY <2>2, <4>1
        <5>2. f[1 .. m + 1] = part(m + 1)
          BY <3>4, <3>5, <5>1
        <5>3. QED
          BY <3>1, <3>5, <4>1, <5>2
      <4>2. CASE m # 0
        <5>1. f[1 .. m] = h[m]
          BY <2>2, <4>2
        <5>2. h[m + 1] = h[m] \o Substituted(e, text[m + 1])
          <6>1. m + 1 # 1
            BY <2>2, <4>2
          <6>2. PICK i : i = m + 1 /\ i \in 1 .. n /\ i # 1 /\ i - 1 = m
            BY <3>1, <6>1
          <6>3. h[i] = h[i - 1] \o Substituted(e, text[i])
            BY <6>2
          <6>4. QED
            BY <6>2, <6>3
        <5>3. QED
          BY <3>4, <3>5, <5>1, <5>2
      <4>3. QED
        BY <4>1, <4>2
    <3>7. QED
      BY <3>1, <3>6
  <2>3. n \in Same
    <3> HIDE DEF Same
    <3>1. \A m \in 0 .. n : m < n /\ m \in Same => m + 1 \in Same
      BY <2>2
    <3>2. \A m \in 0 .. n : m \in Same
      BY <2>1, <3>1, CountingUp
    <3>3. QED
      BY <3>2
  <2>4. QED
    BY <2>3
<1>11. QED
  BY <1>2, <1>8, <1>10

-----------------------------------------------------------------------------
(* Settings: what a text means *)

\* A text that has all its values comes out of expand_str as what it means, and
\* the others mean nothing.
LEMMA TextMeans ==
  ASSUME NEW e \in [Variables -> Texts], NEW text \in Texts
  PROVE  LET lacking == \E i \in DOMAIN text : Tagged(text[i], "ref") /\ e[text[i].ref] = <<>>
         IN  /\ lacking => MeantIn(e, text) = None
             /\ ~lacking => MeantIn(e, text) = ExpandedIn(e, text) /\ MeantIn(e, text) \in Texts
             /\ ~lacking => MeantIn(e, text) # None
<1>n. PICK n \in Nat : n = Len(text)
  BY DEF Texts
<1>1. ExpandedIn(e, text) = FoldedIn(e, text) /\ FoldedIn(e, text) \in Texts
  <2>1. CASE n = 0
    <3>1. text = <<>> /\ DOMAIN text = {}
      <4>1. text \in Seq(Tokens) /\ Len(text) = 0
        BY <1>n, <2>1 DEF Texts
      <4>2. QED
        BY <4>1, EmptySeq
    <3>2. ExpandedIn(e, text) = <<>>
      <4>1. PICK part : part = [i \in DOMAIN text |->
                                  IF Tagged(text[i], "ref") THEN e[text[i].ref] ELSE <<text[i]>>]
        OBVIOUS
      <4>2. part = <<>>
        BY <3>1, <4>1
      <4>3. FlattenSeq(part) = part
        BY <4>2 DEF FlattenSeq
      <4>4. ExpandedIn(e, text) = FlattenSeq(part)
        BY <4>1, Zenon DEF ExpandedIn
      <4>5. QED
        BY <4>2, <4>3, <4>4
    <3>3. FoldedIn(e, text) = <<>>
      <4> DEFINE part(i) == IF Tagged(text[i], "ref") THEN e[text[i].ref] ELSE <<text[i]>>
                 IsFold(g) == g = [s \in SUBSET DOMAIN text |->
                                     IF s = {} THEN <<>> ELSE g[s \ {Max(s)}] \o part(Max(s))]
      <4>1. FoldedIn(e, text) = (CHOOSE g : IsFold(g))[DOMAIN text]
        BY Zenon DEF FoldedIn, FoldLeft, MapThenFoldSet
      <4> HIDE DEF part
      <4>2. PICK f : f = [s \in SUBSET DOMAIN text |-> <<>>]
        OBVIOUS
      <4>3. [s \in SUBSET DOMAIN text |->
               IF s = {} THEN <<>> ELSE f[s \ {Max(s)}] \o part(Max(s))] = f
        BY <3>1, <4>2
      <4>4. IsFold(f)
        BY <4>3
      <4>5. PICK g : g = (CHOOSE k : IsFold(k)) /\ IsFold(g)
        <5> HIDE DEF IsFold
        <5>1. QED
          BY <4>4
      <4>6. g[{}] = <<>>
        BY <4>5
      <4> HIDE DEF IsFold
      <4>7. QED
        BY <3>1, <4>1, <4>5, <4>6
    <3>4. QED
      BY <3>2, <3>3 DEF Texts
  <2>2. CASE n # 0
    <3>1. PICK part : part = [i \in 1 .. n |-> Substituted(e, text[i])]
      OBVIOUS
    <3>2. \A i \in 1 .. n : part[i] = Substituted(e, text[i]) /\ part[i] \in Texts
      <4>1. \A i \in 1 .. n : text[i] \in Tokens
        BY <1>n DEF Texts
      <4>2. QED
        BY <3>1, <4>1, SubstitutedIsText
    <3>3. n \in Nat \ {0} /\ \A i \in 1 .. n : part[i] \in Texts
      BY <2>2, <3>2
    <3>4. PICK h : \A i \in 1 .. n : /\ h[i] \in Texts
                                    /\ h[i] = IF i = 1 THEN part[i] ELSE h[i - 1] \o part[i]
      BY ONLY <3>3, PartsInOrder
    <3>5. \A i \in 1 .. n : /\ h[i] \in Texts
                            /\ h[i] = IF i = 1 THEN Substituted(e, text[i])
                                      ELSE h[i - 1] \o Substituted(e, text[i])
      BY ONLY <3>2, <3>4
    <3>6. \A i \in 1 .. n : h[i] = IF i = 1 THEN Substituted(e, text[i])
                                 ELSE h[i - 1] \o Substituted(e, text[i])
      BY ONLY <3>5
    <3>7. ExpandedIn(e, text) = h[n]
      BY <1>n, <2>2, <3>6, ExpandedIs
    <3>8. FoldedIn(e, text) = h[n]
      BY <1>n, <2>2, <3>5, FoldedIs
    <3>9. h[n] \in Texts
      BY <3>3, <3>5
    <3>10. QED
      BY <3>7, <3>8, <3>9
  <2>3. QED
    BY <2>1, <2>2
<1>2. None \notin Texts
  BY NoneAssumption
<1>3. QED
  BY <1>1, <1>2, Zenon DEF MeantIn

-----------------------------------------------------------------------------
(* Settings: origins *)

\* A sign is no part of a host, and neither a sign nor a number has capitals.
LEMMA SignsSeparate ==
  /\ \A s : ~HostPiece(Sign(s)) /\ Sign(s) \notin [lit : Capitals]
  /\ \A n, b : [number |-> n, zeros |-> b] \notin [lit : Capitals]
<1>1. ASSUME NEW s PROVE ~HostPiece(Sign(s)) /\ Sign(s) \notin [lit : Capitals]
  <2>1. DOMAIN Sign(s) = {"sign"}
    BY DEF Sign
  <2>2. \A t \in [lit : HostWords] \cup [lit : Capitals] : DOMAIN t = {"lit"}
    OBVIOUS
  <2>3. QED
    BY <2>1, <2>2 DEF HostPiece, Tagged
<1>2. ASSUME NEW n, NEW b PROVE [number |-> n, zeros |-> b] \notin [lit : Capitals]
  <2>1. DOMAIN [number |-> n, zeros |-> b] = {"number", "zeros"}
    OBVIOUS
  <2>2. \A t \in [lit : Capitals] : DOMAIN t = {"lit"}
    OBVIOUS
  <2>3. QED
    BY <2>1, <2>2
<1>3. QED
  BY <1>1, <1>2

\* A text that is its first k tokens and a port, and one that is those alone.
LEMMA PortAtTheEnd ==
  ASSUME NEW text \in Texts, NEW k \in 1 .. Len(text), NEW n
  PROVE  /\ text = SubSeq(text, 1, k) \o Port(n) <=>
              /\ Len(text) = k + 2 /\ text[k + 1] = Sign(":")
              /\ text[k + 2] = [number |-> n, zeros |-> FALSE]
         /\ text = SubSeq(text, 1, k) \o <<>> <=> Len(text) = k
<1>1. PICK colon, digits : colon = Sign(":") /\ digits = [number |-> n, zeros |-> FALSE]
  OBVIOUS
<1>2. Port(n) = <<colon, digits>>
  BY <1>1 DEF Port
<1>3. text \in Seq(Tokens) /\ Len(text) \in Nat /\ k \in Nat /\ k <= Len(text)
  BY DEF Texts
<1>4. /\ SubSeq(text, 1, k) \in Seq(Tokens) /\ Len(SubSeq(text, 1, k)) = k
      /\ \A i \in 1 .. k : SubSeq(text, 1, k)[i] = text[i]
  BY <1>3
<1>5. PICK head \in Seq(Tokens) : head = SubSeq(text, 1, k)
  BY <1>4
<1>6. ASSUME text = head \o <<colon, digits>>
      PROVE  Len(text) = k + 2 /\ text[k + 1] = colon /\ text[k + 2] = digits
  BY ONLY <1>3, <1>4, <1>5, <1>6
<1>7. ASSUME Len(text) = k + 2, text[k + 1] = colon, text[k + 2] = digits
      PROVE  text = head \o <<colon, digits>>
  <2>1. colon \in Tokens /\ digits \in Tokens
    <3>1. k + 1 \in 1 .. Len(text) /\ k + 2 \in 1 .. Len(text)
      BY <1>3, <1>7
    <3>2. \A i \in 1 .. Len(text) : text[i] \in Tokens
      BY <1>3
    <3>3. QED
      BY ONLY <1>7, <3>1, <3>2
  <2>2. PICK whole \in Seq(Tokens) : whole = head \o <<colon, digits>>
    <3>1. <<colon, digits>> \in Seq(Tokens)
      BY ONLY <2>1
    <3>2. head \o <<colon, digits>> \in Seq(Tokens)
      BY ONLY <3>1, head \in Seq(Tokens), ConcatProperties
    <3>3. QED
      BY <3>2, Zenon
  <2>3. /\ Len(whole) = k + 2 /\ whole[k + 1] = colon /\ whole[k + 2] = digits
        /\ \A i \in 1 .. k : whole[i] = text[i]
    BY ONLY <1>3, <1>4, <1>5, <2>1, <2>2
  <2>4. \A i \in 1 .. k + 2 : i \in 1 .. k \/ i = k + 1 \/ i = k + 2
    BY ONLY <1>3
  <2>5. \A i \in 1 .. k + 2 : whole[i] = text[i]
    BY ONLY <1>7, <2>3, <2>4
  <2>6. whole = text
    BY ONLY <1>3, <1>7, <2>2, <2>3, <2>5, text \in Seq(Tokens), whole \in Seq(Tokens)
  <2>7. QED
    BY <2>2, <2>6
<1>8. text = head \o <<>> <=> Len(text) = k
  <2>1. head \o <<>> = head /\ Len(head) = k
    BY <1>4, <1>5
  <2>2. ASSUME Len(text) = k PROVE text = head
    BY ONLY <1>3, <1>4, <1>5, <2>2
  <2>3. QED
    BY <2>1, <2>2
<1>9. QED
  BY ONLY <1>1, <1>2, <1>5, <1>6, <1>7, <1>8

\* validate_origin compares a text with what was parsed of it: the text is one
\* that a browser would send, as its parser and the browser end the host at the
\* same place and there is nothing behind it but a port in plain digits.
LEMMA OriginMatches ==
  ASSUME NEW text \in Texts
  PROVE  ValidOriginText(text) <=> CanMatch(text)
<1>0. /\ Len(text) \in Nat /\ DOMAIN text = 1 .. Len(text)
      /\ \A i \in DOMAIN text : text[i] \in Tokens
  BY DEF Texts
<1>1. \A e \in 3 .. Len(text) : e \in 2 .. Len(text) /\ e > 2 /\ e \in 1 .. Len(text)
  BY <1>0
<1>2. ASSUME ValidOriginText(text) PROVE CanMatch(text)
  <2>1. PICK end \in 2 .. Len(text) :
          /\ HostEndsAt(text, end)
          /\ text[1] \in [lit : {"http", "https"}] /\ text[2] = Sign("://")
          /\ end > 2
          /\ \A i \in DOMAIN text : text[i] \notin [lit : Capitals]
          /\ <<text[1].lit, PortAfter(text, end)>> \notin ImpliedPorts
          /\ text = SubSeq(text, 1, end) \o
                      (IF PortAfter(text, end) = None THEN <<>> ELSE Port(PortAfter(text, end)))
    BY <1>2, Zenon DEF ValidOriginText
  <2>2. end > 2 /\ end \in 2 .. Len(text) /\ \A i \in 3 .. end : HostPiece(text[i])
    BY <2>1, Zenon DEF HostEndsAt
  <2>3. end \in 3 .. Len(text) /\ end \in 1 .. Len(text)
    BY ONLY <1>0, <2>2
  <2>4. \A i \in 3 .. end : i \in DOMAIN text
    BY ONLY <1>0, <2>3
  <2>5. \A i \in 3 .. end : HostPiece(text[i]) /\ text[i] \notin [lit : Capitals]
    BY <2>1, <2>2, <2>4, Zenon
  <2>6. CASE PortAfter(text, end) = None
    <3>1. text = SubSeq(text, 1, end) \o <<>>
      BY <2>1, <2>6, Zenon
    <3>2. end = Len(text)
      BY <2>3, <3>1, Zenon, PortAtTheEnd
    <3>3. QED
      BY <2>1, <2>3, <2>5, <3>2, Zenon DEF CanMatch
  <2>7. CASE PortAfter(text, end) # None
    <3>1. PICK n : n = PortAfter(text, end)
      OBVIOUS
    <3>2. n \in PortNumbers
      BY <2>7, <3>1 DEF PortAfter
    <3>3. text = SubSeq(text, 1, end) \o Port(n)
      BY <2>1, <2>7, <3>1, Zenon
    <3>4. /\ end + 2 = Len(text) /\ text[end + 1] = Sign(":")
          /\ text[end + 2] = [number |-> n, zeros |-> FALSE]
      BY <2>3, <3>3, Zenon, PortAtTheEnd
    <3>5. /\ text[end + 2] \in [number : PortNumbers, zeros : {FALSE}]
          /\ text[end + 2].number = n
      BY ONLY <3>2, <3>4
    <3>6. <<text[1].lit, text[end + 2].number>> \notin ImpliedPorts
      BY <2>1, <3>1, <3>5, Zenon
    <3>7. QED
      BY <2>1, <2>3, <2>5, <3>4, <3>5, <3>6, Zenon DEF CanMatch
  <2>8. QED
    BY <2>6, <2>7
<1>3. ASSUME CanMatch(text) PROVE ValidOriginText(text)
  <2>1. PICK last \in 3 .. Len(text) :
          /\ text[1] \in [lit : {"http", "https"}] /\ text[2] = Sign("://")
          /\ \A i \in 3 .. last : HostPiece(text[i]) /\ text[i] \notin [lit : Capitals]
          /\ \/ last = Len(text)
             \/ /\ last + 2 = Len(text) /\ text[last + 1] = Sign(":")
                /\ text[last + 2] \in [number : PortNumbers, zeros : {FALSE}]
                /\ <<text[1].lit, text[last + 2].number>> \notin ImpliedPorts
    BY <1>3, Zenon DEF CanMatch
  <2>2. text[1] \notin [lit : Capitals] /\ text[2] \notin [lit : Capitals]
    <3>1. text[1].lit \in {"http", "https"}
      BY <2>1
    <3>2. QED
      BY <2>1, <3>1, SignsSeparate, HostsAssumption
  <2>3. last \in Int /\ last \in 2 .. Len(text) /\ last > 2 /\ last \in 1 .. Len(text)
    BY <1>0, <1>1
  <2>4. CASE last = Len(text)
    <3>1. HostEndsAt(text, last)
      BY <2>1, <2>4, Zenon DEF HostEndsAt
    <3>2. \A i \in DOMAIN text : i = 1 \/ i = 2 \/ i \in 3 .. last
      BY ONLY <1>0, <2>3, <2>4
    <3>3. \A i \in DOMAIN text : text[i] \notin [lit : Capitals]
      BY <2>1, <2>2, <3>2, Zenon
    <3>4. PortAfter(text, last) = None
      <4>1. ~(last + 2 <= Len(text))
        BY ONLY <1>0, <2>4
      <4>2. QED
        BY <4>1, Zenon DEF PortAfter
    <3>5. <<text[1].lit, None>> \notin ImpliedPorts
      BY NoneAssumption DEF ImpliedPorts
    <3>6. text = SubSeq(text, 1, last) \o <<>>
      BY <2>3, <2>4, Zenon, PortAtTheEnd
    <3>7. QED
      BY <2>1, <2>3, <3>1, <3>3, <3>4, <3>5, <3>6, Zenon DEF ValidOriginText
  <2>5. CASE /\ last + 2 = Len(text) /\ text[last + 1] = Sign(":")
             /\ text[last + 2] \in [number : PortNumbers, zeros : {FALSE}]
             /\ <<text[1].lit, text[last + 2].number>> \notin ImpliedPorts
    <3>1. PICK n : n = text[last + 2].number
      OBVIOUS
    <3>2. /\ text[last + 2] = [number |-> n, zeros |-> FALSE] /\ n \in PortNumbers
          /\ Tagged(text[last + 2], "number")
      BY <2>5, <3>1 DEF Tagged
    <3>3. HostEndsAt(text, last)
      BY <2>1, <2>5, Zenon, SignsSeparate DEF HostEndsAt
    <3>4. \A i \in DOMAIN text : i = 1 \/ i = 2 \/ i \in 3 .. last \/ i = last + 1 \/ i = last + 2
      <4>1. last + 2 = Len(text)
        BY <2>5
      <4>2. QED
        BY ONLY <1>0, <2>3, <4>1
    <3>5. text[last + 1] \notin [lit : Capitals] /\ text[last + 2] \notin [lit : Capitals]
      BY <2>5, <3>2, Zenon, SignsSeparate
    <3>6. \A i \in DOMAIN text : text[i] \notin [lit : Capitals]
      BY <2>1, <2>2, <3>4, <3>5, Zenon
    <3>7. PortAfter(text, last) = n
      <4>1. last + 2 = Len(text) /\ text[last + 1] = Sign(":")
        BY <2>5
      <4>2. last + 2 <= Len(text)
        BY ONLY <1>0, <4>1
      <4>3. QED
        BY <3>1, <3>2, <4>1, <4>2, Zenon DEF PortAfter
    <3>8. n # None
      <4>1. last + 2 \in DOMAIN text
        <5>1. last + 2 = Len(text)
          BY <2>5
        <5>2. QED
          BY ONLY <1>0, <2>3, <5>1
      <4>2. text[last + 2] \in Tokens /\ DOMAIN text[last + 2] = {"number", "zeros"}
        BY <1>0, <3>2, <4>1
      <4>3. text[last + 2] \in [number : Nat, zeros : BOOLEAN]
        BY ONLY <4>2 DEF Tokens
      <4>4. n \in Nat
        BY ONLY <3>1, <4>3
      <4>5. QED
        BY <4>4, NoneAssumption
    <3>9. text = SubSeq(text, 1, last) \o Port(n)
      <4>1. Len(text) = last + 2 /\ text[last + 1] = Sign(":")
        BY <2>5
      <4>2. text = SubSeq(text, 1, last) \o Port(n) <=>
              /\ Len(text) = last + 2 /\ text[last + 1] = Sign(":")
              /\ text[last + 2] = [number |-> n, zeros |-> FALSE]
        BY <2>3, PortAtTheEnd, Zenon
      <4>3. QED
        BY <3>2, <4>1, <4>2, Zenon
    <3>10. <<text[1].lit, n>> \notin ImpliedPorts
      BY <2>5, <3>1
    <3>11. QED
      BY <2>1, <2>3, <3>3, <3>6, <3>7, <3>8, <3>9, <3>10, Zenon DEF ValidOriginText
  <2>6. QED
    BY <2>1, <2>4, <2>5
<1>4. QED
  BY <1>2, <1>3

-----------------------------------------------------------------------------
(* Settings: the meaning of a file *)

\* What the assumptions say of the file and the environment of this process.
LEMMA FileIsWritten ==
  ASSUME file \in Files, env \in Environments
  PROVE  /\ file \in Written /\ env \in [Variables -> Texts]
         /\ \A i \in DOMAIN file.upstreams :
              /\ file.upstreams[i] \in UpstreamSettings
              /\ file.upstreams[i].label \in Texts /\ file.upstreams[i].url \in Texts
              /\ file.upstreams[i].hedge_after \in Nat \cup {None}
         /\ Len(file.upstreams) \in Nat
         /\ DOMAIN file.upstreams = 1 .. Len(file.upstreams)
<1>1. file \in Written /\ env \in [Variables -> Texts]
  BY FilesAssumption, EnvironmentsAssumption
<1>2. file.upstreams \in Seq(UpstreamSettings)
  BY <1>1 DEF Written
<1>3. Len(file.upstreams) \in Nat /\ DOMAIN file.upstreams = 1 .. Len(file.upstreams)
  BY <1>2
<1>4. \A i \in DOMAIN file.upstreams : file.upstreams[i] \in UpstreamSettings
  BY <1>2, <1>3, ElementOfSeq
<1>5. \A rpc \in UpstreamSettings : /\ rpc.label \in Texts /\ rpc.url \in Texts
                                   /\ rpc.hedge_after \in Nat \cup {None}
  BY DEF UpstreamSettings
<1>6. QED
  BY <1>1, <1>3, <1>4, <1>5

\* TextMeans, in the environment of this process.
LEMMA MeantWhenExpandable ==
  ASSUME env \in Environments, NEW text \in Texts
  PROVE  /\ Expandable(text) => Expanded(text) = Meant(text) /\ Meant(text) \in Texts
         /\ Expandable(text) <=> Meant(text) # None
<1>1. env \in [Variables -> Texts]
  BY EnvironmentsAssumption
<1>2. PICK e \in [Variables -> Texts] : e = env
  BY <1>1
<1>3. Meant(text) = MeantIn(env, text)
  BY Zenon DEF Meant, MeantIn, FoldedIn
<1>4. Expanded(text) = ExpandedIn(env, text)
  BY Zenon DEF Expanded, ExpandedIn
<1>5. Expandable(text) <=> ~\E i \in DOMAIN text : Tagged(text[i], "ref") /\ env[text[i].ref] = <<>>
  BY Zenon DEF Expandable
<1>6. QED
  BY <1>1, <1>3, <1>4, <1>5, TextMeans

\* The parts of a file's meaning, each with its type.
LEMMA MeaningOfFile ==
  ASSUME file \in Files, env \in Environments
  PROVE  /\ HostAsWritten \in Texts /\ Host = Meant(HostAsWritten)
         /\ OriginsAsWritten \in Seq(Texts)
         /\ Origins = [i \in DOMAIN OriginsAsWritten |-> Meant(OriginsAsWritten[i])]
         /\ DOMAIN Labels = DOMAIN file.upstreams /\ DOMAIN Urls = DOMAIN file.upstreams
         /\ DOMAIN Hedges = DOMAIN file.upstreams
         /\ \A i \in DOMAIN file.upstreams :
              /\ Labels[i] = Meant(file.upstreams[i].label)
              /\ Urls[i] = Meant(file.upstreams[i].url)
              /\ Hedges[i] = Default(file.upstreams[i].hedge_after, SharedHedge)
              /\ Hedges[i] \in Nat
         /\ SharedHedge \in Nat
         /\ DeciderAsWritten \in Words
         /\ Numbers \in Nat \X Nat \X Nat
<1>1. file \in Written
  BY FileIsWritten
<1>2. HostAsWritten \in Texts /\ Host = Meant(HostAsWritten)
  <2>1. [lit |-> "127.0.0.1"] \in Tokens
    <3>1. "127.0.0.1" \in Words
      BY WordsAssumption
    <3>2. QED
      BY <3>1 DEF Tokens
  <2>2. <<[lit |-> "127.0.0.1"]>> \in Texts
    BY <2>1 DEF Texts
  <2>3. HostAsWritten \in Texts
    BY <1>1, <2>2 DEF HostAsWritten, Default, Written
  <2>4. QED
    BY <2>3 DEF Host, HostAsWritten
<1>3. /\ OriginsAsWritten \in Seq(Texts)
      /\ Origins = [i \in DOMAIN OriginsAsWritten |-> Meant(OriginsAsWritten[i])]
  <2>1. OriginsAsWritten \in Seq(Texts)
    BY <1>1 DEF OriginsAsWritten, Default, Written
  <2>2. QED
    BY <2>1, Zenon DEF Origins, OriginsAsWritten, MeantEach
<1>4. /\ SharedHedge \in Nat
      /\ DeciderAsWritten \in Words
      /\ Numbers \in Nat \X Nat \X Nat
  <2>1. /\ file.hedge_after \in Nat \cup {None} /\ file.decider \in Words \cup {None}
        /\ file.max_attempt \in Nat \cup {None} /\ file.max_bytes \in Nat \cup {None}
        /\ file.timeout \in Nat \cup {None} /\ file.legacy \in Nat \cup {None}
    BY <1>1 DEF Written
  <2>2. SharedHedge \in Nat
    BY <2>1 DEF SharedHedge, Default
  <2>6. DeciderAsWritten \in Words
    <3>1. \A s \in Words : Default(file.decider, s) \in Words
      BY <2>1 DEF Default
    <3>2. QED
      BY <3>1, WordsAssumption DEF DeciderAsWritten
  <2>3. Default(file.max_attempt, 3) \in Nat /\ Timeout(file) \in Nat
    BY <2>1 DEF Timeout, Default
  <2>4. \A n \in Nat : Default(file.max_bytes, n) \in Nat
    BY <2>1 DEF Default
  <2>5. Numbers \in Nat \X Nat \X Nat
    BY <2>3, <2>4, SMT DEF Numbers
  <2>7. QED
    BY <2>2, <2>5, <2>6
<1>5. /\ DOMAIN Labels = DOMAIN file.upstreams
      /\ \A i \in DOMAIN file.upstreams : Labels[i] = Meant(file.upstreams[i].label)
  BY DEF Labels, MeantEach
<1>6. /\ DOMAIN Urls = DOMAIN file.upstreams
      /\ \A i \in DOMAIN file.upstreams : Urls[i] = Meant(file.upstreams[i].url)
  BY DEF Urls, MeantEach
<1>7. /\ DOMAIN Hedges = DOMAIN file.upstreams
      /\ \A i \in DOMAIN file.upstreams :
           /\ Hedges[i] = Default(file.upstreams[i].hedge_after, SharedHedge)
           /\ Hedges[i] \in Nat
  <2>1. \A i \in DOMAIN file.upstreams : file.upstreams[i].hedge_after \in Nat \cup {None}
    BY FileIsWritten
  <2>2. QED
    BY <1>4, <2>1 DEF Hedges, Default
<1>8. QED
  BY <1>2, <1>3, <1>4, <1>5, <1>6, <1>7

ValuesAreMeant ==
  /\ Labels = [i \in DOMAIN file.upstreams |-> MeantIn(env, file.upstreams[i].label)]
  /\ Urls = [i \in DOMAIN file.upstreams |-> MeantIn(env, file.upstreams[i].url)]
  /\ Origins = [i \in DOMAIN OriginsAsWritten |-> MeantIn(env, OriginsAsWritten[i])]
  /\ Host = MeantIn(env, HostAsWritten)

\* It is a matter of the file and the environment ...
LEMMA ValuesIn == ValuesAreMeant
<1>1. \A text : Meant(text) = MeantIn(env, text)
  BY Zenon DEF Meant, MeantIn, FoldedIn
<1>2. QED
  BY <1>1 DEF ValuesAreMeant, Labels, Urls, Origins, Host, OriginsAsWritten, HostAsWritten,
              MeantEach

\* ... which no step changes.
LEMMA MeaningStays ==
  ASSUME UNCHANGED <<file, env>>
  PROVE  /\ UNCHANGED <<Labels, Urls, Hedges, Origins, Host, Numbers, SharedHedge>>
         /\ UNCHANGED <<HostAsWritten, OriginsAsWritten, DeciderAsWritten>>
         /\ Sound' <=> Sound
         /\ OriginsSound' <=> OriginsSound
         /\ \A i : UpstreamSound(i)' <=> UpstreamSound(i)
         /\ \A s : Keeps(s)' <=> Keeps(s)
<1>0. file' = file /\ env' = env
  OBVIOUS
<1>1. /\ HostAsWritten' = HostAsWritten /\ OriginsAsWritten' = OriginsAsWritten
      /\ DeciderAsWritten' = DeciderAsWritten /\ SharedHedge' = SharedHedge
  BY <1>0 DEF HostAsWritten, OriginsAsWritten, DeciderAsWritten, SharedHedge
<1>2. Numbers' = Numbers
  BY <1>0, SMT DEF Numbers
<1>3. Hedges' = Hedges
  BY <1>0, <1>1 DEF Hedges
<1>4. ValuesAreMeant'
  BY ValuesIn, PTL
<1>5. Labels' = Labels /\ Urls' = Urls /\ Origins' = Origins /\ Host' = Host
  BY <1>0, <1>1, <1>4, ValuesIn DEF ValuesAreMeant
<1>6. Sound' <=> Sound
  BY <1>0, <1>1, <1>2, <1>3, <1>5, SMT DEF Sound, DeciderAsWritten
<1>7. OriginsSound' <=> OriginsSound
  BY <1>5 DEF OriginsSound
<1>8. \A i : UpstreamSound(i)' <=> UpstreamSound(i)
  BY <1>0, <1>5 DEF UpstreamSound
<1>9. \A s : Keeps(s)' <=> Keeps(s)
  BY <1>0, <1>1, <1>2 DEF Keeps
<1>10. QED
  BY <1>1, <1>2, <1>3, <1>5, <1>6, <1>7, <1>8, <1>9

\* Settings that keep to the file go on doing so when a text or the fleet gets
\* its values.
LEMMA KeptWithValues ==
  ASSUME NEW s, Keeps(s)
  PROVE  /\ \A host \in Texts : Keeps([s EXCEPT !.host = host])
         /\ \A origins \in Seq(Texts) : Keeps([s EXCEPT !.origins = origins])
         /\ \A upstreams \in Seq(UpstreamSettings) :
              Len(upstreams) = Len(file.upstreams) => Keeps([s EXCEPT !.upstreams = upstreams])
<1>1. ASSUME NEW host \in Texts PROVE Keeps([s EXCEPT !.host = host])
  BY <1>1 DEF Keeps, Prepared
<1>2. ASSUME NEW origins \in Seq(Texts) PROVE Keeps([s EXCEPT !.origins = origins])
  BY <1>2 DEF Keeps, Prepared
<1>3. ASSUME NEW upstreams \in Seq(UpstreamSettings), Len(upstreams) = Len(file.upstreams)
      PROVE  Keeps([s EXCEPT !.upstreams = upstreams])
  BY <1>3 DEF Keeps, Prepared
<1>4. QED
  BY <1>1, <1>2, <1>3

\* The types of prepared settings.
LEMMA KeptTypes ==
  ASSUME file \in Files, env \in Environments, NEW s, Keeps(s)
  PROVE  /\ s.host \in Texts /\ s.origins \in Seq(Texts) /\ s.upstreams \in Seq(UpstreamSettings)
         /\ {s.max_attempt, s.timeout, s.max_bytes, s.hedge_after} \subseteq Nat
         /\ s.upstreams \in Seq(UpstreamSettings)
         /\ DOMAIN s.upstreams = DOMAIN file.upstreams
         /\ \A i \in DOMAIN file.upstreams :
              /\ s.upstreams[i] \in UpstreamSettings
              /\ s.upstreams[i].label \in Texts /\ s.upstreams[i].url \in Texts
              /\ s.upstreams[i].hedge_after \in Nat \cup {None}
<1>1. /\ s.host \in Texts /\ s.origins \in Seq(Texts) /\ s.upstreams \in Seq(UpstreamSettings)
      /\ {s.max_attempt, s.timeout, s.max_bytes, s.hedge_after} \subseteq Nat
      /\ Len(s.upstreams) = Len(file.upstreams)
  BY DEF Keeps, Prepared
<1>2. DOMAIN s.upstreams = 1 .. Len(s.upstreams) /\ DOMAIN s.upstreams = DOMAIN file.upstreams
  BY <1>1, FileIsWritten
<1>3. \A i \in DOMAIN file.upstreams : s.upstreams[i] \in UpstreamSettings
  BY <1>1, <1>2, ElementOfSeq
<1>4. \A rpc \in UpstreamSettings : /\ rpc.label \in Texts /\ rpc.url \in Texts
                                   /\ rpc.hedge_after \in Nat \cup {None}
  BY DEF UpstreamSettings
<1>5. QED
  BY <1>1, <1>2, <1>3, <1>4

\* Sound, position by position.
LEMMA SoundParts ==
  ASSUME file \in Files, env \in Environments
  PROVE  Sound <=>
           /\ DeciderAsWritten \in Deciders
           /\ Host # None
           /\ Numbers[1] # 0 /\ Numbers[2] # 0 /\ Numbers[3] # 0 /\ SharedHedge # 0
           /\ file.upstreams # <<>>
           /\ \A i \in DOMAIN file.upstreams :
                /\ Labels[i] # None /\ ~Blank(Labels[i]) /\ ~Placeholder(Labels[i])
                /\ Urls[i] # None /\ ~Blank(Urls[i]) /\ ~Placeholder(Urls[i])
                /\ Hedges[i] # 0
                /\ \A j \in DOMAIN file.upstreams :
                     i # j => Labels[i] # Labels[j] /\ Urls[i] # Urls[j]
           /\ OriginsSound
<1>1. /\ DOMAIN Labels = DOMAIN file.upstreams /\ DOMAIN Urls = DOMAIN file.upstreams
      /\ DOMAIN Hedges = DOMAIN file.upstreams
      /\ Numbers \in Nat \X Nat \X Nat
  BY MeaningOfFile
<1>2. ToSet(Numbers) = {Numbers[1], Numbers[2], Numbers[3]}
  BY <1>1 DEF ToSet
<1>3. 0 \notin ToSet(Numbers) \cup ToSet(Hedges) \cup {SharedHedge} <=>
        /\ Numbers[1] # 0 /\ Numbers[2] # 0 /\ Numbers[3] # 0 /\ SharedHedge # 0
        /\ \A i \in DOMAIN file.upstreams : Hedges[i] # 0
  BY <1>1, <1>2 DEF ToSet
<1>4. (\A text \in ToSet(Labels) \cup ToSet(Urls) :
         text # None /\ ~Blank(text) /\ ~Placeholder(text)) <=>
        \A i \in DOMAIN file.upstreams :
          /\ Labels[i] # None /\ ~Blank(Labels[i]) /\ ~Placeholder(Labels[i])
          /\ Urls[i] # None /\ ~Blank(Urls[i]) /\ ~Placeholder(Urls[i])
  BY <1>1 DEF ToSet
<1>5. (IsInjective(Labels) /\ IsInjective(Urls)) <=>
        \A i, j \in DOMAIN file.upstreams :
          i # j => Labels[i] # Labels[j] /\ Urls[i] # Urls[j]
  BY <1>1 DEF IsInjective
<1>6. Sound <=> /\ DeciderAsWritten \in Deciders
                /\ Host # None
                /\ 0 \notin ToSet(Numbers) \cup ToSet(Hedges) \cup {SharedHedge}
                /\ file.upstreams # <<>>
                /\ \A text \in ToSet(Labels) \cup ToSet(Urls) :
                     text # None /\ ~Blank(text) /\ ~Placeholder(text)
                /\ IsInjective(Labels) /\ IsInjective(Urls)
                /\ OriginsSound
  BY Zenon DEF Sound, OriginsSound, DeciderAsWritten
<1>7. QED
  BY <1>3, <1>4, <1>5, <1>6

\* validate_cors lets a list of origins through exactly when it is sound.
LEMMA OriginsTested ==
  ASSUME Origins \in Seq(Texts)
  PROVE  ValidCors(Origins) <=> OriginsSound
<1>1. DOMAIN Origins = 1 .. Len(Origins)
  OBVIOUS
<1>2. \A i \in DOMAIN Origins : Origins[i] \in Texts
  BY <1>1, ElementOfSeq
<1>3. \A i \in DOMAIN Origins :
        Origins[i] # None /\ (ValidOriginText(Origins[i]) <=> CanMatch(Origins[i]))
  BY <1>2, OriginMatches, NoneAssumption
<1>4. QED
  BY <1>3 DEF ValidCors, OriginsSound

-----------------------------------------------------------------------------
(* Settings: the steps *)

\* Nothing is prepared, refused or listened on at the start.
LEMMA SettingsStart == SettingsInit => SettingsIInv
BY DEF SettingsInit, SettingsIInv, KeepsTheFile, ExpandsInOrder, KeepsTheValues, ChecksInOrder,
       BuildsFromSound, RefusesUnsound, PastExpansion, PastChecks, PastBuild

\* A refusal of settings that are not sound.
LEMMA RefusalPreserves ==
  ASSUME SettingsIInv, UNCHANGED <<file, env>>, Keeps(settings'), ~Sound, Refuse
  PROVE  SettingsIInv'
<1>1. stage' = "refused" /\ at' = at /\ at \in Nat
  BY DEF Refuse, SettingsIInv
<1>2. file' \in Files /\ env' \in Environments
  BY DEF SettingsIInv
<1>3. KeepsTheFile' /\ RefusesUnsound'
  BY <1>1, MeaningStays DEF KeepsTheFile, RefusesUnsound
<1>4. ExpandsInOrder' /\ KeepsTheValues' /\ ChecksInOrder' /\ BuildsFromSound'
  BY <1>1 DEF ExpandsInOrder, KeepsTheValues, ChecksInOrder, BuildsFromSound,
              PastExpansion, PastChecks, PastBuild
<1>5. QED
  BY <1>1, <1>2, <1>3, <1>4 DEF SettingsIInv

\* What Load makes of a file.
LEMMA LoadKeeps ==
  ASSUME file \in Files, env \in Environments
  PROVE  /\ Keeps(Deserialized(file))
         /\ Deserialized(file).host = HostAsWritten
         /\ Deserialized(file).origins = OriginsAsWritten
         /\ Deserialized(file).upstreams = file.upstreams
<1>1. PICK s : s = Deserialized(file)
  OBVIOUS
<1>2. /\ s.host = HostAsWritten /\ s.origins = OriginsAsWritten /\ s.upstreams = file.upstreams
      /\ s.decider = DeciderAsWritten /\ s.hedge_after = SharedHedge
  BY <1>1, SMT DEF Deserialized, HostAsWritten, OriginsAsWritten, DeciderAsWritten, SharedHedge
<1>3. <<s.max_attempt, s.timeout, s.max_bytes>> = Numbers
  BY <1>1, SMT DEF Deserialized, Numbers
<1>4. s.max_attempt \in Nat /\ s.timeout \in Nat /\ s.max_bytes \in Nat
  BY <1>3, MeaningOfFile
<1>5. s \in Prepared
  <2>1. file.upstreams \in Seq(UpstreamSettings)
    BY FileIsWritten DEF Written
  <2>2. /\ s = [k \in DOMAIN s |-> s[k]]
        /\ DOMAIN s = {"host", "max_attempt", "timeout", "max_bytes", "hedge_after",
                       "origins", "decider", "upstreams"}
    BY <1>1, SMT DEF Deserialized
  <2>3. s = [host |-> s.host, max_attempt |-> s.max_attempt, timeout |-> s.timeout,
             max_bytes |-> s.max_bytes, hedge_after |-> s.hedge_after, origins |-> s.origins,
             decider |-> s.decider, upstreams |-> s.upstreams]
    BY <2>2
  <2>4. /\ s.host \in Texts /\ s.origins \in Seq(Texts) /\ s.upstreams \in Seq(UpstreamSettings)
        /\ s.decider \in Words /\ s.hedge_after \in Nat
    BY <1>2, <2>1, MeaningOfFile
  <2>5. QED
    BY <1>4, <2>3, <2>4 DEF Prepared
<1>6. QED
  BY <1>1, <1>2, <1>3, <1>5 DEF Keeps

\* Load: the file's keys and their defaults.
LEMMA LoadPreserves ==
  ASSUME SettingsIInv, Load
  PROVE  SettingsIInv'
<1>1. /\ file \in Files /\ env \in Environments /\ at = 0 /\ UNCHANGED <<file, env>>
      /\ settings' = Deserialized(file)
  BY DEF Load, SettingsIInv
<1>2. /\ Keeps(settings') /\ settings'.host = HostAsWritten
      /\ settings'.origins = OriginsAsWritten /\ settings'.upstreams = file.upstreams
      /\ settings'.decider = DeciderAsWritten
  BY <1>1, LoadKeeps DEF Keeps
<1>3. CASE settings'.decider \in Deciders
  <2>1. stage' = "expand" /\ at' = 0
    BY <1>1, <1>3 DEF Load
  <2>2. KeepsTheFile'
    BY <1>1, <1>2, <1>3, MeaningStays DEF KeepsTheFile
  <2>3. ExpandsInOrder'
    BY <1>1, <1>2, <2>1, FileIsWritten, MeaningStays DEF ExpandsInOrder
  <2>4. KeepsTheValues' /\ ChecksInOrder' /\ BuildsFromSound' /\ RefusesUnsound'
    BY <2>1 DEF KeepsTheValues, ChecksInOrder, BuildsFromSound, RefusesUnsound,
                PastExpansion, PastChecks, PastBuild
  <2>5. QED
    BY <1>1, <2>1, <2>2, <2>3, <2>4 DEF SettingsIInv
<1>4. CASE settings'.decider \notin Deciders
  <2>1. Refuse
    BY <1>4 DEF Load
  <2>2. ~Sound
    BY <1>1, <1>2, <1>4, SoundParts
  <2>3. QED
    BY <1>1, <1>2, <2>1, <2>2, RefusalPreserves
<1>5. QED
  BY <1>3, <1>4

\* expand_env: the host ...
LEMMA ExpandHostPreserves ==
  ASSUME SettingsIInv, ExpandHost
  PROVE  SettingsIInv'
<1>1. /\ file \in Files /\ env \in Environments /\ UNCHANGED <<file, env>>
      /\ stage = "expand" /\ at = 0
      /\ Keeps(settings) /\ settings.decider \in Deciders
      /\ settings.host = HostAsWritten /\ settings.origins = OriginsAsWritten
      /\ \A i \in DOMAIN file.upstreams : settings.upstreams[i] = file.upstreams[i]
  <2>1. SettingsIInv /\ stage = "expand" /\ at = 0 /\ UNCHANGED <<file, env>>
    BY DEF ExpandHost
  <2>2. file \in Files /\ env \in Environments /\ KeepsTheFile /\ ExpandsInOrder
    BY DEF SettingsIInv
  <2>3. \A i \in DOMAIN file.upstreams : ~(i < 0)
    BY <2>2, FileIsWritten
  <2>4. QED
    BY <2>1, <2>2, <2>3 DEF KeepsTheFile, ExpandsInOrder
<1>2. HostAsWritten \in Texts /\ Host = Meant(HostAsWritten)
  BY <1>1, MeaningOfFile
<1>3. CASE Expandable(HostAsWritten)
  <2>1. settings' = [settings EXCEPT !.host = Host] /\ Host \in Texts
    BY <1>1, <1>2, <1>3, MeantWhenExpandable DEF ExpandHost
  <2>2. stage' = "expand" /\ at' = 1
    BY <1>1, <1>3 DEF ExpandHost
  <2>3. Keeps(settings')
    BY <1>1, <2>1, KeptWithValues
  <2>4. /\ settings'.host = Host /\ settings'.origins = settings.origins
        /\ settings'.upstreams = settings.upstreams /\ settings'.decider = settings.decider
    BY <1>1, <2>1 DEF Keeps, Prepared
  <2>5. KeepsTheFile'
    BY <1>1, <2>3, <2>4, MeaningStays DEF KeepsTheFile
  <2>6. ExpandsInOrder'
    <3>1. \A i \in DOMAIN file.upstreams : ~(i < 1) /\ settings'.upstreams[i] = file.upstreams[i]
      BY <1>1, <2>4, FileIsWritten
    <3>2. 1 \in 0 .. Len(file.upstreams) + 1
      BY <1>1, FileIsWritten
    <3>3. QED
      BY <1>1, <2>2, <2>4, <3>1, <3>2, MeaningStays DEF ExpandsInOrder
  <2>7. KeepsTheValues' /\ ChecksInOrder' /\ BuildsFromSound' /\ RefusesUnsound'
    BY <2>2 DEF KeepsTheValues, ChecksInOrder, BuildsFromSound, RefusesUnsound,
                PastExpansion, PastChecks, PastBuild
  <2>8. QED
    BY <1>1, <2>2, <2>5, <2>6, <2>7 DEF SettingsIInv
<1>4. CASE ~Expandable(HostAsWritten)
  <2>1. Refuse /\ settings' = settings
    BY <1>1, <1>4 DEF ExpandHost
  <2>2. Host = None
    BY <1>1, <1>2, <1>4, MeantWhenExpandable
  <2>3. ~Sound
    BY <1>1, <2>2, SoundParts
  <2>4. QED
    BY <1>1, <2>1, <2>3, RefusalPreserves
<1>5. QED
  BY <1>3, <1>4

\* ... one upstream ...
LEMMA ExpandUpstreamPreserves ==
  ASSUME SettingsIInv, ExpandUpstream
  PROVE  SettingsIInv'
<1>1. /\ file \in Files /\ env \in Environments /\ UNCHANGED <<file, env>>
      /\ stage = "expand" /\ at \in Nat
      /\ Keeps(settings) /\ settings.decider \in Deciders /\ ExpandsInOrder
  BY DEF ExpandUpstream, SettingsIInv, KeepsTheFile
<1>2. /\ at \in DOMAIN file.upstreams /\ DOMAIN settings.upstreams = DOMAIN file.upstreams
      /\ DOMAIN file.upstreams = 1 .. Len(file.upstreams) /\ Len(file.upstreams) \in Nat
      /\ settings.upstreams \in Seq(UpstreamSettings)
  BY <1>1, KeptTypes, FileIsWritten DEF ExpandUpstream
<1>3. PICK rpc : rpc = settings.upstreams[at]
  OBVIOUS
<1>4. /\ rpc = file.upstreams[at] /\ rpc \in UpstreamSettings
      /\ rpc.label \in Texts /\ rpc.url \in Texts
  BY <1>1, <1>2, <1>3, FileIsWritten DEF ExpandsInOrder
<1>5. Labels[at] = Meant(rpc.label) /\ Urls[at] = Meant(rpc.url)
  BY <1>1, <1>2, <1>4, MeaningOfFile
<1>6. CASE Expandable(rpc.label) /\ Expandable(rpc.url)
  <2>1. /\ Expanded(rpc.label) = Labels[at] /\ Expanded(rpc.url) = Urls[at]
        /\ Labels[at] \in Texts /\ Urls[at] \in Texts
    BY <1>1, <1>4, <1>5, <1>6, MeantWhenExpandable
  <2>2. PICK new : new = [rpc EXCEPT !.label = Labels[at], !.url = Urls[at]]
    OBVIOUS
  <2>3. /\ new \in UpstreamSettings
        /\ new.label = Labels[at] /\ new.url = Urls[at]
        /\ new.hedge_after = file.upstreams[at].hedge_after
    BY <1>4, <2>1, <2>2 DEF UpstreamSettings
  <2>4. PICK fleet : fleet = [settings.upstreams EXCEPT ![at] = new]
    OBVIOUS
  <2>5. /\ fleet \in Seq(UpstreamSettings) /\ Len(fleet) = Len(settings.upstreams)
        /\ fleet[at] = new
        /\ \A i \in DOMAIN file.upstreams : i # at => fleet[i] = settings.upstreams[i]
    BY <1>2, <2>3, <2>4
  <2>6. settings' = [settings EXCEPT !.upstreams = fleet] /\ at' = at + 1 /\ stage' = "expand"
    <3>1. settings' = [settings EXCEPT !.upstreams[at] =
                         [rpc EXCEPT !.label = Expanded(rpc.label), !.url = Expanded(rpc.url)]]
      BY <1>3, <1>6, Zenon DEF ExpandUpstream
    <3>2. [rpc EXCEPT !.label = Expanded(rpc.label), !.url = Expanded(rpc.url)] = new
      BY <2>1, <2>2
    <3>3. settings' = [settings EXCEPT !.upstreams[at] = new]
      BY <3>1, <3>2
    <3>4. settings' = [settings EXCEPT !.upstreams = fleet]
      BY <2>4, <3>3
    <3>5. QED
      BY <1>1, <1>3, <1>6, <3>4 DEF ExpandUpstream
  <2>7. Keeps(settings')
    <3>1. Len(settings.upstreams) = Len(file.upstreams)
      BY <1>1 DEF Keeps
    <3>2. QED
      BY <1>1, <2>5, <2>6, <3>1, KeptWithValues
  <2>8. /\ settings'.host = settings.host /\ settings'.origins = settings.origins
        /\ settings'.upstreams = fleet /\ settings'.decider = settings.decider
    BY <1>1, <2>6 DEF Keeps, Prepared
  <2>9. KeepsTheFile'
    BY <1>1, <2>7, <2>8, MeaningStays DEF KeepsTheFile
  <2>10. ExpandsInOrder'
    <3>1. /\ at' \in 0 .. Len(file.upstreams) + 1 /\ at' # 0 /\ at # 0
          /\ settings'.host = Host /\ settings'.origins = OriginsAsWritten
      BY <1>1, <1>2, <2>6, <2>8 DEF ExpandsInOrder
    <3>2. ASSUME NEW i \in DOMAIN file.upstreams
          PROVE  IF i < at'
                   THEN /\ settings'.upstreams[i].label = Labels[i]
                        /\ settings'.upstreams[i].url = Urls[i]
                        /\ settings'.upstreams[i].hedge_after = file.upstreams[i].hedge_after
                   ELSE settings'.upstreams[i] = file.upstreams[i]
      <4>1. CASE i = at
        <5>1. i < at' /\ settings'.upstreams[i] = new
          BY <1>2, <2>5, <2>6, <2>8, <4>1
        <5>2. QED
          BY <2>3, <4>1, <5>1
      <4>2. CASE i # at
        <5>1. (i < at' <=> i < at) /\ settings'.upstreams[i] = settings.upstreams[i]
          BY <1>2, <2>5, <2>6, <2>8, <4>2
        <5>2. QED
          BY <1>1, <5>1 DEF ExpandsInOrder, HoldsValues
      <4>3. QED
        BY <4>1, <4>2
    <3>3. QED
      BY <1>1, <3>1, <3>2, MeaningStays DEF ExpandsInOrder, HoldsValues
  <2>11. KeepsTheValues' /\ ChecksInOrder' /\ BuildsFromSound' /\ RefusesUnsound'
    BY <2>6 DEF KeepsTheValues, ChecksInOrder, BuildsFromSound, RefusesUnsound,
                PastExpansion, PastChecks, PastBuild
  <2>12. QED
    BY <1>1, <2>6, <2>9, <2>10, <2>11 DEF SettingsIInv
<1>7. CASE ~(Expandable(rpc.label) /\ Expandable(rpc.url))
  <2>1. Refuse /\ settings' = settings
    BY <1>3, <1>7 DEF ExpandUpstream
  <2>2. Labels[at] = None \/ Urls[at] = None
    BY <1>1, <1>4, <1>5, <1>7, MeantWhenExpandable
  <2>3. ~Sound
    BY <1>1, <1>2, <2>2, SoundParts
  <2>4. QED
    BY <1>1, <2>1, <2>3, RefusalPreserves
<1>8. QED
  BY <1>6, <1>7

\* ... and the origins, after which every text has its value.
LEMMA ExpandOriginsPreserves ==
  ASSUME SettingsIInv, ExpandOrigins
  PROVE  SettingsIInv'
<1>1. /\ file \in Files /\ env \in Environments /\ UNCHANGED <<file, env>>
      /\ stage = "expand" /\ at \in Nat
      /\ Keeps(settings) /\ settings.decider \in Deciders /\ ExpandsInOrder
  BY DEF ExpandOrigins, SettingsIInv, KeepsTheFile
<1>2. /\ at = Len(file.upstreams) + 1 /\ Len(file.upstreams) \in Nat
      /\ DOMAIN file.upstreams = 1 .. Len(file.upstreams)
      /\ settings.origins = OriginsAsWritten /\ OriginsAsWritten \in Seq(Texts)
      /\ Origins = [i \in DOMAIN OriginsAsWritten |-> Meant(OriginsAsWritten[i])]
  <2>1. Len(settings.upstreams) = Len(file.upstreams)
    BY <1>1 DEF Keeps
  <2>2. QED
    BY <1>1, <2>1, FileIsWritten, MeaningOfFile DEF ExpandOrigins, ExpandsInOrder
<1>3. DOMAIN OriginsAsWritten = 1 .. Len(OriginsAsWritten) /\ Len(OriginsAsWritten) \in Nat
      /\ \A i \in DOMAIN OriginsAsWritten : OriginsAsWritten[i] \in Texts
  BY <1>2, ElementOfSeq
<1>4. CASE \A i \in DOMAIN OriginsAsWritten : Expandable(OriginsAsWritten[i])
  <2>1. \A i \in DOMAIN OriginsAsWritten :
          /\ Expanded(OriginsAsWritten[i]) = Meant(OriginsAsWritten[i])
          /\ Meant(OriginsAsWritten[i]) \in Texts
    BY <1>1, <1>3, <1>4, MeantWhenExpandable
  <2>2. [i \in DOMAIN OriginsAsWritten |-> Expanded(OriginsAsWritten[i])] = Origins
    BY <1>2, <2>1
  <2>3. Origins \in Seq(Texts)
    BY <1>2, <1>3, <2>1
  <2>4. /\ settings' = [settings EXCEPT !.origins = Origins]
        /\ stage' = "check" /\ at' = 0
    BY <1>2, <1>4, <2>2 DEF ExpandOrigins
  <2>5. Keeps(settings')
    BY <1>1, <2>3, <2>4, KeptWithValues
  <2>6. /\ settings'.host = settings.host /\ settings'.origins = Origins
        /\ settings'.upstreams = settings.upstreams /\ settings'.decider = settings.decider
    BY <1>1, <2>4 DEF Keeps, Prepared
  <2>7. KeepsTheFile'
    BY <1>1, <2>5, <2>6, MeaningStays DEF KeepsTheFile
  <2>8. KeepsTheValues'
    <3>1. \A i \in DOMAIN file.upstreams : i < at
      BY <1>2
    <3>2. /\ settings.host = Host
          /\ \A i \in DOMAIN file.upstreams :
               HoldsValues(i) /\ settings.upstreams[i].hedge_after = file.upstreams[i].hedge_after
      BY <1>1, <1>2, <3>1 DEF ExpandsInOrder
    <3>3. stage' \notin PastBuild
      BY <2>4 DEF PastBuild, PastChecks, PastExpansion
    <3>4. QED
      BY <1>1, <2>6, <3>2, <3>3, MeaningStays DEF KeepsTheValues, HoldsValues
  <2>9. ExpandsInOrder' /\ ChecksInOrder' /\ BuildsFromSound' /\ RefusesUnsound'
    <3>1. \A i \in DOMAIN file.upstreams : ~(i < 0)
      BY <1>2
    <3>2. 0 \in 0 .. Len(file.upstreams)
      BY <1>2
    <3>3. QED
      BY <1>1, <2>4, <3>1, <3>2 DEF ExpandsInOrder, ChecksInOrder, BuildsFromSound, RefusesUnsound,
                                    PastExpansion, PastChecks, PastBuild
  <2>10. QED
    BY <1>1, <2>4, <2>7, <2>8, <2>9 DEF SettingsIInv
<1>5. CASE ~\A i \in DOMAIN OriginsAsWritten : Expandable(OriginsAsWritten[i])
  <2>1. Refuse /\ settings' = settings
    BY <1>2, <1>5 DEF ExpandOrigins
  <2>2. PICK i \in DOMAIN OriginsAsWritten : ~Expandable(OriginsAsWritten[i])
    BY <1>5
  <2>3. i \in DOMAIN Origins /\ Origins[i] = None
    BY <1>1, <1>2, <1>3, <2>2, MeantWhenExpandable
  <2>4. None # Wildcard
    <3>1. [lit |-> "*"] \in Tokens
      BY WordsAssumption DEF Tokens
    <3>2. Wildcard \in Texts
      BY <3>1 DEF Texts, Wildcard
    <3>3. QED
      BY <3>2, NoneAssumption
  <2>5. Origins # <<Wildcard>>
    BY <2>3, <2>4
  <2>6. ~Sound
    BY <1>1, <2>3, <2>5, SoundParts DEF OriginsSound
  <2>7. QED
    BY <1>1, <2>1, <2>6, RefusalPreserves
<1>6. QED
  BY <1>4, <1>5

\* Past the expansion, the settings hold the values and the types of the values.
LEMMA PastExpansionFacts ==
  ASSUME SettingsIInv, stage \in PastExpansion
  PROVE  /\ file \in Files /\ env \in Environments /\ at \in Nat
         /\ Keeps(settings) /\ settings.decider \in Deciders
         /\ settings.host = Host /\ settings.origins = Origins
         /\ Host \in Texts /\ Origins \in Seq(Texts)
         /\ DOMAIN settings.upstreams = DOMAIN file.upstreams
         /\ DOMAIN file.upstreams = 1 .. Len(file.upstreams)
         /\ Len(file.upstreams) \in Nat /\ Len(settings.upstreams) = Len(file.upstreams)
         /\ \A i \in DOMAIN file.upstreams :
              /\ settings.upstreams[i].label = Labels[i] /\ settings.upstreams[i].url = Urls[i]
              /\ Labels[i] # None /\ Urls[i] # None
         /\ stage \notin PastBuild =>
              \A i \in DOMAIN file.upstreams :
                settings.upstreams[i].hedge_after = file.upstreams[i].hedge_after
         /\ Numbers = <<settings.max_attempt, settings.timeout, settings.max_bytes>>
         /\ SharedHedge = settings.hedge_after
<1>1. /\ file \in Files /\ env \in Environments /\ at \in Nat
      /\ Keeps(settings) /\ settings.decider \in Deciders /\ KeepsTheValues
  BY DEF SettingsIInv, KeepsTheFile, PastExpansion
<1>2. /\ settings.host \in Texts /\ settings.origins \in Seq(Texts)
      /\ DOMAIN settings.upstreams = DOMAIN file.upstreams
      /\ \A i \in DOMAIN file.upstreams :
           settings.upstreams[i].label \in Texts /\ settings.upstreams[i].url \in Texts
  BY <1>1, KeptTypes
<1>3. /\ DOMAIN file.upstreams = 1 .. Len(file.upstreams) /\ Len(file.upstreams) \in Nat
  BY <1>1, FileIsWritten
<1>4. /\ settings.host = Host /\ settings.origins = Origins
      /\ \A i \in DOMAIN file.upstreams :
           settings.upstreams[i].label = Labels[i] /\ settings.upstreams[i].url = Urls[i]
      /\ stage \notin PastBuild =>
           \A i \in DOMAIN file.upstreams :
             settings.upstreams[i].hedge_after = file.upstreams[i].hedge_after
  BY <1>1 DEF KeepsTheValues, HoldsValues
<1>5. /\ Len(settings.upstreams) = Len(file.upstreams)
      /\ Numbers = <<settings.max_attempt, settings.timeout, settings.max_bytes>>
      /\ SharedHedge = settings.hedge_after
  BY <1>1 DEF Keeps
<1>6. None \notin Texts
  BY NoneAssumption
<1>7. QED
  BY <1>1, <1>2, <1>3, <1>4, <1>5, <1>6

\* A step that only moves on, between two stages that hold the same values.
LEMMA ValuesStay ==
  ASSUME SettingsIInv, UNCHANGED <<file, env, settings>>,
         stage \in PastExpansion, stage' \in PastExpansion,
         stage \in PastBuild <=> stage' \in PastBuild
  PROVE  KeepsTheFile' /\ ExpandsInOrder' /\ KeepsTheValues' /\ RefusesUnsound'
<1>1. KeepsTheFile /\ KeepsTheValues /\ stage' \notin {"load", "expand", "refused"}
      /\ stage \notin {"load", "refused"}
  BY DEF SettingsIInv, PastExpansion
<1>2. KeepsTheFile'
  BY <1>1, MeaningStays DEF KeepsTheFile
<1>3. KeepsTheValues'
  BY <1>1, MeaningStays DEF KeepsTheValues, HoldsValues
<1>4. ExpandsInOrder' /\ RefusesUnsound'
  BY <1>1 DEF ExpandsInOrder, RefusesUnsound
<1>5. QED
  BY <1>2, <1>3, <1>4

\* validate_settings: what is shared ...
LEMMA CheckSharedPreserves ==
  ASSUME SettingsIInv, CheckShared
  PROVE  SettingsIInv'
<1>1. stage = "check" /\ at = 0 /\ UNCHANGED <<file, env, settings>> /\ stage \in PastExpansion
      /\ stage \notin PastBuild
  BY DEF CheckShared, PastExpansion, PastBuild, PastChecks
<1>2. /\ file \in Files /\ env \in Environments /\ Keeps(settings)
      /\ settings.origins = Origins /\ Origins \in Seq(Texts) /\ settings.hedge_after = SharedHedge
      /\ DOMAIN file.upstreams = 1 .. Len(file.upstreams) /\ Len(file.upstreams) \in Nat
      /\ settings.upstreams \in Seq(UpstreamSettings) /\ file.upstreams \in Seq(UpstreamSettings)
      /\ Len(settings.upstreams) = Len(file.upstreams)
  BY <1>1, PastExpansionFacts, KeptTypes, FileIsWritten DEF Written
<1>3. settings.upstreams # <<>> <=> file.upstreams # <<>>
  BY <1>2, EmptySeq
<1>4. ValidCors(settings.origins) <=> OriginsSound
  BY <1>2, OriginsTested
<1>5. CASE settings.upstreams # <<>> /\ settings.hedge_after # 0 /\ ValidCors(settings.origins)
  <2>1. stage' = "check" /\ at' = 1
    BY <1>1, <1>5 DEF CheckShared
  <2>2. KeepsTheFile' /\ ExpandsInOrder' /\ KeepsTheValues' /\ RefusesUnsound'
    BY <1>1, <2>1, ValuesStay
  <2>3. file.upstreams # <<>> /\ SharedHedge # 0 /\ OriginsSound
    BY <1>2, <1>3, <1>4, <1>5
  <2>4. stage' \notin PastChecks /\ stage' \notin PastBuild /\ stage' \notin {"bind", "listening"}
    BY <2>1 DEF PastExpansion, PastChecks, PastBuild
  <2>5. 1 \in 0 .. Len(file.upstreams) /\ \A i \in DOMAIN file.upstreams : ~(i < 1)
    <3>1. Len(file.upstreams) # 0
      BY <1>2, <2>3, EmptySeq
    <3>2. QED
      BY <1>2, <3>1
  <2>6. ChecksInOrder' /\ BuildsFromSound'
    BY <1>1, <2>1, <2>3, <2>4, <2>5, MeaningStays DEF ChecksInOrder, BuildsFromSound
  <2>7. QED
    BY <1>1, <1>2, <2>1, <2>2, <2>6 DEF SettingsIInv
<1>6. CASE ~(settings.upstreams # <<>> /\ settings.hedge_after # 0 /\ ValidCors(settings.origins))
  <2>1. Refuse
    BY <1>6 DEF CheckShared
  <2>2. ~Sound
    BY <1>2, <1>3, <1>4, <1>6, SoundParts
  <2>3. QED
    BY <1>1, <1>2, <2>1, <2>2, RefusalPreserves
<1>7. QED
  BY <1>5, <1>6

\* ... and one upstream after the other.
LEMMA CheckUpstreamPreserves ==
  ASSUME SettingsIInv, CheckUpstream
  PROVE  SettingsIInv'
<1>1. /\ stage = "check" /\ UNCHANGED <<file, env, settings>> /\ stage \in PastExpansion
      /\ stage \notin PastBuild /\ ChecksInOrder
  BY DEF CheckUpstream, PastExpansion, PastBuild, PastChecks, SettingsIInv
<1>2. /\ file \in Files /\ env \in Environments /\ Keeps(settings)
      /\ at \in DOMAIN file.upstreams
      /\ DOMAIN file.upstreams = 1 .. Len(file.upstreams) /\ Len(file.upstreams) \in Nat
      /\ Len(settings.upstreams) = Len(file.upstreams)
      /\ \A i \in DOMAIN file.upstreams :
           /\ settings.upstreams[i].label = Labels[i] /\ settings.upstreams[i].url = Urls[i]
           /\ settings.upstreams[i].hedge_after = file.upstreams[i].hedge_after
  BY <1>1, PastExpansionFacts DEF CheckUpstream
<1>3. PICK rpc : rpc = settings.upstreams[at]
  OBVIOUS
<1>4. /\ rpc.label = Labels[at] /\ rpc.url = Urls[at]
      /\ rpc.hedge_after = file.upstreams[at].hedge_after
  BY <1>2, <1>3
<1> DEFINE passes == /\ ~Blank(rpc.label) /\ ~Blank(rpc.url)
                     /\ ~Placeholder(rpc.label) /\ ~Placeholder(rpc.url)
                     /\ \A i \in 1 .. at - 1 : /\ settings.upstreams[i].label # rpc.label
                                               /\ settings.upstreams[i].url # rpc.url
                     /\ rpc.hedge_after # 0
<1>5. passes <=> UpstreamSound(at)
  <2>1. \A i \in 1 .. at - 1 : i \in DOMAIN file.upstreams
    BY <1>2
  <2>2. QED
    BY <1>2, <1>4, <2>1 DEF UpstreamSound
<1>6. CASE passes
  <2>1. IF at = Len(settings.upstreams) THEN stage' = "build" /\ at' = 0
                                        ELSE at' = at + 1 /\ UNCHANGED stage
    BY <1>3, <1>6, Zenon DEF CheckUpstream
  <2>2. /\ stage' \in PastExpansion /\ stage' \notin PastBuild
        /\ stage' \notin {"load", "bind", "listening"}
        /\ stage' \in {"check", "build"} /\ at' \in Nat
    BY <1>1, <1>2, <2>1 DEF PastExpansion, PastBuild, PastChecks
  <2>3. KeepsTheFile' /\ ExpandsInOrder' /\ KeepsTheValues' /\ RefusesUnsound'
    BY <1>1, <2>2, ValuesStay
  <2>4. file.upstreams # <<>> /\ SharedHedge # 0 /\ OriginsSound
    BY <1>1, <1>2 DEF ChecksInOrder
  <2>5. \A i \in DOMAIN file.upstreams : i <= at => UpstreamSound(i)
    <3>1. \A i \in DOMAIN file.upstreams : i < at => UpstreamSound(i)
      BY <1>1 DEF ChecksInOrder
    <3>2. UpstreamSound(at)
      BY <1>5, <1>6
    <3>3. QED
      BY <1>2, <3>1, <3>2
  <2>6. \A i \in DOMAIN file.upstreams :
          (stage' = "check" /\ i < at') \/ stage' \in PastChecks => i <= at
    BY <1>1, <1>2, <2>1 DEF PastChecks
  <2>7. stage' = "check" => at' \in 0 .. Len(file.upstreams)
    BY <1>1, <1>2, <2>1
  <2>8. ChecksInOrder' /\ BuildsFromSound'
    BY <1>1, <2>2, <2>4, <2>5, <2>6, <2>7, MeaningStays DEF ChecksInOrder, BuildsFromSound
  <2>9. QED
    BY <1>1, <1>2, <2>2, <2>3, <2>8 DEF SettingsIInv
<1>7. CASE ~passes
  <2>1. Refuse
    BY <1>3, <1>7, Zenon DEF CheckUpstream
  <2>2. ~Sound
    <3>1. ~UpstreamSound(at)
      BY <1>5, <1>7
    <3>2. CASE file.upstreams[at].hedge_after = 0
      <4>1. Hedges[at] = 0
        <5>1. Hedges[at] = Default(file.upstreams[at].hedge_after, SharedHedge) /\ None # 0
          BY <1>2, MeaningOfFile, NoneAssumption
        <5>2. QED
          BY <3>2, <5>1 DEF Default
      <4>2. QED
        BY <1>2, <4>1, SoundParts
    <3>3. CASE \E j \in 1 .. at - 1 : Labels[j] = Labels[at] \/ Urls[j] = Urls[at]
      <4>1. PICK j \in 1 .. at - 1 : Labels[j] = Labels[at] \/ Urls[j] = Urls[at]
        BY <3>3
      <4>2. j \in DOMAIN file.upstreams /\ j # at
        BY <1>2, <4>1
      <4>3. QED
        BY <1>2, <4>1, <4>2, SoundParts
    <3>4. CASE \/ Blank(Labels[at]) \/ Blank(Urls[at])
               \/ Placeholder(Labels[at]) \/ Placeholder(Urls[at])
      BY <1>2, <3>4, SoundParts
    <3>5. QED
      BY <3>1, <3>2, <3>3, <3>4 DEF UpstreamSound
  <2>3. QED
    BY <1>1, <1>2, <2>1, <2>2, RefusalPreserves
<1>8. QED
  BY <1>6, <1>7

\* build_all: every upstream gets the hedge_after it means.
LEMMA BuildUpstreamsPreserves ==
  ASSUME SettingsIInv, BuildUpstreams
  PROVE  SettingsIInv'
<1>1. /\ stage = "build" /\ UNCHANGED <<file, env>> /\ stage \in PastExpansion
      /\ stage \notin PastBuild /\ stage \in PastChecks /\ ChecksInOrder
  BY DEF BuildUpstreams, PastExpansion, PastBuild, PastChecks, SettingsIInv
<1>2. /\ file \in Files /\ env \in Environments /\ at \in Nat
      /\ Keeps(settings) /\ settings.decider \in Deciders
      /\ settings.host = Host /\ settings.origins = Origins
      /\ DOMAIN settings.upstreams = DOMAIN file.upstreams
      /\ DOMAIN file.upstreams = 1 .. Len(file.upstreams) /\ Len(file.upstreams) \in Nat
      /\ Len(settings.upstreams) = Len(file.upstreams)
      /\ \A i \in DOMAIN file.upstreams :
           /\ settings.upstreams[i].label = Labels[i] /\ settings.upstreams[i].url = Urls[i]
           /\ settings.upstreams[i].hedge_after = file.upstreams[i].hedge_after
      /\ Numbers = <<settings.max_attempt, settings.timeout, settings.max_bytes>>
      /\ SharedHedge = settings.hedge_after
  BY <1>1, PastExpansionFacts
<1>3. /\ \A i \in DOMAIN file.upstreams : settings.upstreams[i] \in UpstreamSettings
      /\ \A i \in DOMAIN file.upstreams :
           Hedges[i] = Default(file.upstreams[i].hedge_after, SharedHedge) /\ Hedges[i] \in Nat
  BY <1>2, KeptTypes, MeaningOfFile
<1>4. PICK fleet : fleet = [i \in DOMAIN file.upstreams |->
                              [settings.upstreams[i] EXCEPT !.hedge_after = Hedges[i]]]
  OBVIOUS
<1>5. \A i \in DOMAIN file.upstreams :
        /\ fleet[i] \in UpstreamSettings
        /\ fleet[i].label = Labels[i] /\ fleet[i].url = Urls[i] /\ fleet[i].hedge_after = Hedges[i]
  <2> SUFFICES ASSUME NEW i \in DOMAIN file.upstreams
               PROVE  /\ fleet[i] \in UpstreamSettings
                      /\ fleet[i].label = Labels[i] /\ fleet[i].url = Urls[i]
                      /\ fleet[i].hedge_after = Hedges[i]
    OBVIOUS
  <2>1. PICK rpc \in UpstreamSettings : rpc = settings.upstreams[i]
    BY <1>3
  <2>2. PICK hedge \in Nat : hedge = Hedges[i]
    BY <1>3
  <2>3. fleet[i] = [rpc EXCEPT !.hedge_after = hedge]
    BY <1>4, <2>1, <2>2
  <2>4. /\ fleet[i] \in UpstreamSettings /\ fleet[i].label = rpc.label /\ fleet[i].url = rpc.url
        /\ fleet[i].hedge_after = hedge
    BY <2>3 DEF UpstreamSettings
  <2>5. QED
    BY <1>2, <2>1, <2>2, <2>4
<1>6. fleet \in Seq(UpstreamSettings) /\ Len(fleet) = Len(file.upstreams)
  <2>1. fleet \in [1 .. Len(file.upstreams) -> UpstreamSettings]
    BY <1>2, <1>4, <1>5
  <2>2. QED
    BY <1>2, <2>1
<1>7. settings' = [settings EXCEPT !.upstreams = fleet]
  <2>1. settings' = [settings EXCEPT !.upstreams =
                       [i \in DOMAIN settings.upstreams |-> Hedged(settings.upstreams[i])]]
    BY Zenon DEF BuildUpstreams
  <2>2. \A i \in DOMAIN file.upstreams : Hedged(settings.upstreams[i]) = fleet[i]
    BY <1>2, <1>3, <1>4 DEF Hedged
  <2>3. [i \in DOMAIN settings.upstreams |-> Hedged(settings.upstreams[i])] = fleet
    BY <1>2, <1>4, <2>2
  <2>4. QED
    BY <2>1, <2>3
<1>8. Keeps(settings')
  BY <1>2, <1>6, <1>7, KeptWithValues
<1>9. /\ settings'.host = Host /\ settings'.origins = Origins /\ settings'.upstreams = fleet
      /\ settings'.decider = settings.decider
      /\ settings'.timeout = settings.timeout /\ settings'.max_bytes = settings.max_bytes
  BY <1>2, <1>7 DEF Keeps, Prepared
<1>10. \A i \in DOMAIN file.upstreams : UpstreamSound(i)
  BY <1>1 DEF ChecksInOrder
<1>11. (\A i \in DOMAIN settings'.upstreams : UpstreamBuilds(settings'.upstreams[i])) <=>
         \A i \in DOMAIN file.upstreams : 0 \notin {settings.timeout, Hedges[i], settings.max_bytes}
  <2>1. DOMAIN settings'.upstreams = DOMAIN file.upstreams
    BY <1>4, <1>9
  <2>2. \A i \in DOMAIN file.upstreams :
          UpstreamBuilds(settings'.upstreams[i]) <=>
            0 \notin {settings.timeout, Hedges[i], settings.max_bytes}
    BY <1>5, <1>9, <1>10 DEF UpstreamBuilds, UpstreamSound
  <2>3. QED
    BY <2>1, <2>2
<1>12. file.upstreams # <<>> /\ SharedHedge # 0 /\ OriginsSound /\ 1 \in DOMAIN file.upstreams
  <2>1. file.upstreams # <<>> /\ SharedHedge # 0 /\ OriginsSound
    BY <1>1 DEF ChecksInOrder
  <2>2. file.upstreams \in Seq(UpstreamSettings)
    BY <1>2, FileIsWritten DEF Written
  <2>3. QED
    BY <1>2, <2>1, <2>2, EmptySeq
<1>13. CASE \A i \in DOMAIN settings'.upstreams : UpstreamBuilds(settings'.upstreams[i])
  <2>1. stage' = "wire" /\ at' = at
    BY <1>13 DEF BuildUpstreams
  <2>2. /\ stage' \in PastExpansion /\ stage' \in PastBuild /\ stage' \in PastChecks
    BY <2>1 DEF PastExpansion, PastBuild, PastChecks
  <2>3. KeepsTheFile'
    BY <1>1, <1>2, <1>8, <1>9, MeaningStays DEF KeepsTheFile
  <2>4. KeepsTheValues'
    BY <1>1, <1>5, <1>9, <2>2, MeaningStays DEF KeepsTheValues, HoldsValues
  <2>5. ExpandsInOrder' /\ RefusesUnsound'
    BY <2>1 DEF ExpandsInOrder, RefusesUnsound
  <2>6. ChecksInOrder'
    BY <1>1, <1>10, <1>12, <2>1, MeaningStays DEF ChecksInOrder
  <2>7. BuildsFromSound'
    <3>1. /\ 0 \notin {settings'.timeout, settings'.max_bytes}
          /\ \A i \in DOMAIN file.upstreams : Hedges[i] # 0
      BY <1>9, <1>11, <1>12, <1>13
    <3>2. QED
      BY <1>1, <2>1, <3>1, MeaningStays DEF BuildsFromSound
  <2>8. QED
    BY <1>1, <1>2, <2>1, <2>3, <2>4, <2>5, <2>6, <2>7 DEF SettingsIInv
<1>14. CASE ~\A i \in DOMAIN settings'.upstreams : UpstreamBuilds(settings'.upstreams[i])
  <2>1. Refuse
    BY <1>14 DEF BuildUpstreams
  <2>2. PICK i \in DOMAIN file.upstreams : 0 \in {settings.timeout, Hedges[i], settings.max_bytes}
    BY <1>11, <1>14
  <2>3. Numbers[2] = 0 \/ Numbers[3] = 0 \/ Hedges[i] = 0
    BY <1>2, <2>2
  <2>4. ~Sound
    BY <1>2, <2>3, SoundParts
  <2>5. QED
    BY <1>1, <1>2, <1>8, <2>1, <2>4, RefusalPreserves
<1>15. QED
  BY <1>13, <1>14

\* The decider and the pipeline are built, ...
LEMMA WirePreserves ==
  ASSUME SettingsIInv, Wire
  PROVE  SettingsIInv'
<1>1. /\ stage = "wire" /\ UNCHANGED <<file, env, settings>> /\ stage \in PastExpansion
      /\ stage \in PastBuild /\ stage \in PastChecks /\ ChecksInOrder /\ BuildsFromSound
  BY DEF Wire, PastExpansion, PastBuild, PastChecks, SettingsIInv
<1>2. /\ file \in Files /\ env \in Environments /\ at \in Nat /\ Keeps(settings)
      /\ Len(settings.upstreams) = Len(file.upstreams)
      /\ Numbers = <<settings.max_attempt, settings.timeout, settings.max_bytes>>
  BY <1>1, PastExpansionFacts
<1>3. file.upstreams # <<>> /\ SharedHedge # 0 /\ OriginsSound
      /\ \A i \in DOMAIN file.upstreams : UpstreamSound(i)
  BY <1>1 DEF ChecksInOrder
<1>4. DeciderBuilds
  <2>1. settings.upstreams \in Seq(UpstreamSettings) /\ file.upstreams \in Seq(UpstreamSettings)
    BY <1>2, KeptTypes, FileIsWritten DEF Written
  <2>2. QED
    BY <1>2, <1>3, <2>1, EmptySeq DEF DeciderBuilds
<1>5. CASE PipelineBuilds
  <2>1. stage' = "bind" /\ at' = at
    BY <1>4, <1>5 DEF Wire
  <2>2. stage' \in PastExpansion /\ stage' \in PastBuild /\ stage' \in PastChecks
    BY <2>1 DEF PastExpansion, PastBuild, PastChecks
  <2>3. KeepsTheFile' /\ ExpandsInOrder' /\ KeepsTheValues' /\ RefusesUnsound'
    BY <1>1, <2>2, ValuesStay
  <2>4. ChecksInOrder'
    BY <1>1, <1>3, <2>1, MeaningStays DEF ChecksInOrder
  <2>5. BuildsFromSound'
    BY <1>1, <1>5, MeaningStays DEF BuildsFromSound, PipelineBuilds
  <2>6. QED
    BY <1>1, <1>2, <2>1, <2>3, <2>4, <2>5 DEF SettingsIInv
<1>6. CASE ~PipelineBuilds
  <2>1. Refuse
    BY <1>6 DEF Wire
  <2>2. Numbers[1] = 0
    BY <1>2, <1>6 DEF PipelineBuilds
  <2>3. ~Sound
    BY <1>2, <2>2, SoundParts
  <2>4. QED
    BY <1>1, <1>2, <2>1, <2>3, RefusalPreserves
<1>7. QED
  BY <1>5, <1>6

\* ... and the listener is bound, or is not.
LEMMA BindPreserves ==
  ASSUME SettingsIInv, Bind
  PROVE  SettingsIInv'
<1>1. /\ stage = "bind" /\ UNCHANGED <<file, env, settings, at>> /\ stage \in PastExpansion
      /\ stage \in PastBuild /\ stage \in PastChecks /\ ChecksInOrder /\ BuildsFromSound
      /\ stage' \in {"unbound", "listening"}
  BY DEF Bind, PastExpansion, PastBuild, PastChecks, SettingsIInv
<1>2. file \in Files /\ env \in Environments /\ at \in Nat
      /\ Keeps(settings) /\ settings.decider \in Deciders
  BY <1>1, PastExpansionFacts
<1>3. CASE stage' = "unbound"
  <2>1. KeepsTheFile'
    BY <1>1, <1>2, <1>3, MeaningStays DEF KeepsTheFile
  <2>2. /\ ExpandsInOrder' /\ KeepsTheValues' /\ ChecksInOrder' /\ BuildsFromSound'
        /\ RefusesUnsound'
    BY <1>3 DEF ExpandsInOrder, KeepsTheValues, ChecksInOrder, BuildsFromSound, RefusesUnsound,
                PastExpansion, PastChecks, PastBuild
  <2>3. QED
    BY <1>1, <1>2, <1>3, <2>1, <2>2 DEF SettingsIInv
<1>4. CASE stage' = "listening"
  <2>1. stage' \in PastExpansion /\ stage' \in PastBuild /\ stage' \in PastChecks
    BY <1>4 DEF PastExpansion, PastBuild, PastChecks
  <2>2. KeepsTheFile' /\ ExpandsInOrder' /\ KeepsTheValues' /\ RefusesUnsound'
    BY <1>1, <2>1, ValuesStay
  <2>3. ChecksInOrder' /\ BuildsFromSound'
    BY <1>1, <1>4, <2>1, MeaningStays DEF ChecksInOrder, BuildsFromSound
  <2>4. QED
    BY <1>1, <1>2, <1>4, <2>2, <2>3 DEF SettingsIInv
<1>5. QED
  BY <1>1, <1>3, <1>4

\* Every reachable state of the preparation satisfies SettingsIInv: what it has
\* prepared is what the file and the environment mean, as far as it has come,
\* and sound as far as it has been tested.
THEOREM SettingsInvariance == SettingsSpec => []SettingsIInv
<1>1. SettingsInit => SettingsIInv
  BY SettingsStart
<1>2. SettingsIInv /\ [SettingsNext]_settingsVars => SettingsIInv'
  <2> SUFFICES ASSUME SettingsIInv, [SettingsNext]_settingsVars PROVE SettingsIInv'
    OBVIOUS
  <2>1. CASE UNCHANGED settingsVars
    <3>1. UNCHANGED <<file, env, settings, stage, at>>
      BY <2>1 DEF settingsVars
    <3>2. SettingsIInv
      OBVIOUS
    <3>3. KeepsTheFile' /\ ExpandsInOrder' /\ KeepsTheValues'
      BY <3>1, <3>2, MeaningStays
         DEF SettingsIInv, KeepsTheFile, ExpandsInOrder, KeepsTheValues, HoldsValues
    <3>4. ChecksInOrder' /\ BuildsFromSound' /\ RefusesUnsound'
      BY <3>1, <3>2, MeaningStays DEF SettingsIInv, ChecksInOrder, BuildsFromSound, RefusesUnsound
    <3>5. QED
      BY <3>1, <3>2, <3>3, <3>4 DEF SettingsIInv
  <2>2. CASE SettingsNext
    BY <2>2, LoadPreserves, ExpandHostPreserves, ExpandUpstreamPreserves, ExpandOriginsPreserves,
       CheckSharedPreserves, CheckUpstreamPreserves, BuildUpstreamsPreserves, WirePreserves,
       BindPreserves DEF SettingsNext
  <2>3. QED
    BY <2>1, <2>2
<1>3. QED
  BY <1>1, <1>2, PTL DEF SettingsSpec

\* The settings have their types, and an upstream that is wired a hedge_after
\* that is neither missing nor zero.
THEOREM SettingsTypeCorrect == SettingsSpec => []SettingsTypeOK
<1>1. SettingsIInv => SettingsTypeOK
  <2> SUFFICES ASSUME SettingsIInv PROVE SettingsTypeOK
    OBVIOUS
  <2>1. /\ file \in Files /\ env \in Environments /\ at \in Nat
        /\ stage \in {"load", "expand", "check", "build", "wire", "bind",
                      "listening", "refused", "unbound"}
        /\ KeepsTheFile /\ KeepsTheValues /\ BuildsFromSound
    BY DEF SettingsIInv
  <2>2. ASSUME stage # "load"
        PROVE  /\ {settings.max_attempt, settings.timeout, settings.max_bytes,
                   settings.hedge_after} \subseteq Nat
               /\ DOMAIN settings.upstreams = DOMAIN file.upstreams
               /\ \A i \in DOMAIN file.upstreams :
                    settings.upstreams[i].hedge_after \in Nat \cup {None}
    BY <2>1, <2>2, KeptTypes DEF KeepsTheFile
  <2>3. ASSUME stage \in {"wire", "bind", "listening"}
        PROVE  \A i \in DOMAIN file.upstreams : settings.upstreams[i].hedge_after \in Nat \ {0}
    <3>1. stage \in PastExpansion /\ stage \in PastBuild
      BY <2>3 DEF PastExpansion, PastBuild, PastChecks
    <3>2. \A i \in DOMAIN file.upstreams :
            settings.upstreams[i].hedge_after = Hedges[i] /\ Hedges[i] # 0
      BY <2>1, <3>1 DEF KeepsTheValues, BuildsFromSound
    <3>3. \A i \in DOMAIN file.upstreams : Hedges[i] \in Nat
      BY <2>1, MeaningOfFile
    <3>4. QED
      BY <3>2, <3>3
  <2>4. file \in Written
    BY <2>1, FilesAssumption
  <2>5. QED
    BY <2>1, <2>2, <2>3, <2>4 DEF SettingsTypeOK
<1>2. QED
  BY <1>1, SettingsInvariance, PTL

\* For any file and any environment, a server that listens does so with exactly
\* what they mean and that is sound, and what get_settings or a constructor
\* refuses is not sound.
THEOREM Listens == SettingsSpec => []ListensExactlyWhenSound
<1>1. SettingsIInv => ListensExactlyWhenSound
  <2> SUFFICES ASSUME SettingsIInv PROVE ListensExactlyWhenSound
    OBVIOUS
  <2>1. CASE stage = "listening"
    <3>1. stage \in PastExpansion /\ stage \in PastBuild /\ stage \in PastChecks
          /\ KeepsTheValues /\ ChecksInOrder /\ BuildsFromSound
      BY <2>1 DEF PastExpansion, PastBuild, PastChecks, SettingsIInv
    <3>2. /\ file \in Files /\ env \in Environments /\ Keeps(settings)
          /\ settings.decider \in Deciders
          /\ settings.host = Host /\ settings.origins = Origins /\ Host \in Texts
          /\ DOMAIN settings.upstreams = DOMAIN file.upstreams
          /\ DOMAIN file.upstreams = 1 .. Len(file.upstreams) /\ Len(file.upstreams) \in Nat
          /\ \A i \in DOMAIN file.upstreams :
               /\ settings.upstreams[i].label = Labels[i] /\ settings.upstreams[i].url = Urls[i]
               /\ Labels[i] # None /\ Urls[i] # None
          /\ Numbers = <<settings.max_attempt, settings.timeout, settings.max_bytes>>
      BY <3>1, PastExpansionFacts
    <3>3. Sound
      <4>1. DeciderAsWritten \in Deciders /\ Host # None
        BY <3>2, NoneAssumption DEF Keeps
      <4>2. Numbers[1] # 0 /\ Numbers[2] # 0 /\ Numbers[3] # 0
        BY <2>1, <3>1, <3>2 DEF BuildsFromSound
      <4>3. /\ file.upstreams # <<>> /\ SharedHedge # 0 /\ OriginsSound
            /\ \A i \in DOMAIN file.upstreams : UpstreamSound(i) /\ Hedges[i] # 0
        BY <3>1 DEF ChecksInOrder, BuildsFromSound
      <4>4. ASSUME NEW i \in DOMAIN file.upstreams, NEW j \in DOMAIN file.upstreams, i # j
            PROVE  Labels[i] # Labels[j] /\ Urls[i] # Urls[j]
        <5>1. i \in 1 .. j - 1 \/ j \in 1 .. i - 1
          BY <3>2, <4>4
        <5>2. QED
          BY <4>3, <5>1 DEF UpstreamSound
      <4>5. \A i \in DOMAIN file.upstreams :
              /\ ~Blank(Labels[i]) /\ ~Placeholder(Labels[i])
              /\ ~Blank(Urls[i]) /\ ~Placeholder(Urls[i])
        BY <4>3 DEF UpstreamSound
      <4>6. QED
        BY <3>2, <4>1, <4>2, <4>3, <4>4, <4>5, SoundParts
    <3>4. settings.upstreams = [i \in DOMAIN file.upstreams |->
            [label |-> Labels[i], url |-> Urls[i], hedge_after |-> Hedges[i]]]
      <4>1. ASSUME NEW i \in DOMAIN file.upstreams
            PROVE  settings.upstreams[i] =
                     [label |-> Labels[i], url |-> Urls[i], hedge_after |-> Hedges[i]]
        <5>1. PICK rpc \in UpstreamSettings : rpc = settings.upstreams[i]
          BY <3>2, KeptTypes
        <5>2. rpc = [label |-> rpc.label, url |-> rpc.url, hedge_after |-> rpc.hedge_after]
          BY DEF UpstreamSettings
        <5>3. rpc.hedge_after = Hedges[i]
          BY <3>1, <5>1 DEF KeepsTheValues
        <5>4. QED
          BY <3>2, <5>1, <5>2, <5>3
      <4>2. settings.upstreams \in Seq(UpstreamSettings)
        BY <3>2, KeptTypes
      <4>3. settings.upstreams = [i \in DOMAIN settings.upstreams |-> settings.upstreams[i]]
        BY <4>2
      <4>4. QED
        BY <3>2, <4>1, <4>3
    <3>5. QED
      BY <2>1, <3>2, <3>3, <3>4 DEF ListensExactlyWhenSound
  <2>2. CASE stage # "listening"
    BY <2>2 DEF SettingsIInv, RefusesUnsound, ListensExactlyWhenSound
  <2>3. QED
    BY <2>1, <2>2
<1>2. QED
  BY <1>1, SettingsInvariance, PTL

=============================================================================
