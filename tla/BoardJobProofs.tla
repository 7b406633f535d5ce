---------------------------- MODULE BoardJobProofs ----------------------------
(***************************************************************************)
(* Proofs about BoardJob, for any devices, downloads and basenames.        *)
(***************************************************************************)
EXTENDS BoardJob, SequenceTheorems, TLAPS

(***************************************************************************)
(* The inductive invariant.  Looked is what the two checks established if  *)
(* nothing changed and LAVA answered; the label tried for a download is    *)
(* its basename, or that basename is taken by an earlier download (Tried). *)
(***************************************************************************)
Calm == changes = 0 /\ ~assumed

Looked ==
  Calm =>
    /\ pc # "remote_access" /\ pc # "refused" /\ pinning => tagged # {}
    /\ pc \in {"downloads", "submitted"} /\ console => Candidate \cap services # {}

Reported(k) == items[k] # None => items[k] \in Images

Tried ==
  /\ \A k \in 1..Len(placed) : Reported(k)
  /\ label # None =>
       /\ pc = "downloads" /\ Len(placed) < Len(items)
       /\ items[Len(placed) + 1] \notin {None, label} => items[Len(placed) + 1] \in Images

Complete == pc \in {"submitted", "running", "rejected"} => Len(placed) = Len(items)

Types ==
  /\ pinning \in BOOLEAN /\ console \in BOOLEAN /\ assumed \in BOOLEAN
  /\ tagged \subseteq Device /\ services \subseteq Device /\ asked \subseteq Device
  /\ items \in Seq(Basename \cup {None}) /\ Len(items) <= MaxItems
  /\ pc \in Building \cup Done
  /\ label \in Label \cup {None}
  /\ placed \in Seq(Label) /\ Len(placed) <= Len(items)
  /\ changes \in Nat

IInv == Types /\ EveryDownloadKept /\ Looked /\ RefusedCouldNotRun /\ Tried /\ Complete

\* Appending a label that is not in use keeps the labels distinct and all images.
LEMMA AppendKeeps ==
  ASSUME placed \in Seq(Label), EveryDownloadKept, NEW l \in Label, l \notin Images,
         placed' = Append(placed, l)
  PROVE  /\ placed' \in Seq(Label) /\ Len(placed') = Len(placed) + 1
         /\ EveryDownloadKept'
         /\ Images' = Images \cup {l}
<1>1. /\ placed' \in Seq(Label) /\ Len(placed') = Len(placed) + 1
      /\ DOMAIN placed = 1..Len(placed) /\ DOMAIN placed' = 1..(Len(placed) + 1)
      /\ Len(placed) \in Nat
  OBVIOUS
<1>2. \A k \in DOMAIN placed : placed'[k] = placed[k]
  OBVIOUS
<1>3. placed'[Len(placed) + 1] = l
  OBVIOUS
<1>4. DOMAIN placed' = DOMAIN placed \cup {Len(placed) + 1}
  BY <1>1
<1>5. \A k \in DOMAIN placed : placed[k] # l
  BY DEF Images
<1>6. EveryDownloadKept'
  BY <1>2, <1>3, <1>4, <1>5 DEF EveryDownloadKept
<1>7. Images' = Images \cup {l}
  BY <1>2, <1>3, <1>4 DEF Images
<1> QED
  BY <1>1, <1>6, <1>7

LEMMA InitInv == Init => IInv
<1> SUFFICES ASSUME Init PROVE IInv
  OBVIOUS
<1> USE DEF Init
<1>1. /\ pinning \in BOOLEAN /\ console \in BOOLEAN /\ assumed \in BOOLEAN
      /\ tagged \subseteq Device /\ services \subseteq Device /\ asked \subseteq Device
      /\ label \in Label \cup {None} /\ changes \in Nat
  OBVIOUS
<1>2. items \in Seq(Basename \cup {None})
  BY SizesAreNat
<1>3. placed \in Seq(Label) /\ Len(placed) = 0 /\ DOMAIN placed = {}
  OBVIOUS
<1>4. Types
  BY <1>1, <1>2, <1>3 DEF Types, Building, Done
<1> QED
  BY <1>3, <1>4
  DEF IInv, EveryDownloadKept, Looked, RefusedCouldNotRun, Tried, Complete

\* What only depends on the labels is kept by a step that leaves them alone.
LEMMA LabelsKept ==
  ASSUME IInv, UNCHANGED <<request, label, placed>>, label # None => pc' = pc
  PROVE  EveryDownloadKept' /\ Tried'
<1>1. Images' = Images
  BY DEF Images
<1> QED
  BY <1>1 DEF IInv, EveryDownloadKept, Tried, Reported, request

LEMMA StepInv == IInv /\ [Next]_vars => IInv'
<1> SUFFICES ASSUME IInv, [Next]_vars PROVE IInv'
  OBVIOUS
<1>1. ASSUME NEW answered \in BOOLEAN, RequireRemoteAccess(answered) PROVE IInv'
  <2> USE <1>1 DEF RequireRemoteAccess, IInv
  <2>1. label = None /\ EveryDownloadKept' /\ Tried'
    BY LabelsKept DEF Tried
  <2>2. Types' /\ Complete'
    BY DEF Types, Complete, Building, Done, request
  <2>3. Looked'
    BY DEF Looked, Calm, Candidate, request
  <2>4. RefusedCouldNotRun'
    BY DEF RefusedCouldNotRun, Candidate, Matching, Types, request
  <2> QED
    BY <2>1, <2>2, <2>3, <2>4
<1>2. ASSUME NEW page \in SUBSET Device, NEW read \in SUBSET Device,
             RequireTestServices(page, read)
      PROVE  IInv'
  <2> USE <1>2 DEF RequireTestServices, IInv
  <2>1. label = None /\ EveryDownloadKept' /\ Tried'
    BY LabelsKept DEF Tried
  <2>2. Types' /\ Complete'
    BY DEF Types, Complete, Building, Done, request
  <2>3. Looked'
    <3> SUFFICES ASSUME Calm' PROVE Looked'
      BY DEF Looked
    <3>1. Calm /\ (console => read = Candidate) /\ (pinning => tagged # {})
      BY DEF Calm, Looked
    <3>2. Candidate # {}
      BY <3>1, SomeDevice DEF Candidate
    <3> QED
      BY <3>1, <3>2 DEF Looked, Permits, Candidate, request
  <2>4. RefusedCouldNotRun'
    <3> SUFFICES ASSUME pc' = "refused", ~assumed' PROVE \A d \in Matching : console /\ d \notin services
      BY DEF RefusedCouldNotRun, Matching, request
    <3>1. console /\ read = Candidate /\ read \cap services = {}
      BY DEF Permits
    <3> QED
      BY <3>1 DEF Matching, Candidate, Types
  <2> QED
    BY <2>1, <2>2, <2>3, <2>4
<1>3. CASE BeginDownload
  <2> USE <1>3 DEF BeginDownload, IInv, Current
  <2>0. /\ Len(placed) \in Nat /\ Len(placed) + 1 \in DOMAIN items
        /\ items[Len(placed) + 1] \in Basename \cup {None}
        /\ Len(placed) \in Index
    BY SizesAreNat DEF Types, Index
  <2>1. label' \in Label
    BY <2>0, DefaultsAreStems, BasenamesAreLabels DEF DownloadLabel, Label, Types
  <2>2. Types' /\ Complete'
    BY <2>1 DEF Types, Complete, request
  <2>3. Images' = Images /\ EveryDownloadKept'
    BY DEF Images, EveryDownloadKept
  <2>4. Tried'
    BY <2>0, <2>1, <2>3, NoneIsNoMember DEF Tried, Reported, DownloadLabel, request
  <2>5. Looked' /\ RefusedCouldNotRun'
    BY DEF Looked, Calm, Candidate, RefusedCouldNotRun, Matching, request
  <2> QED
    BY <2>2, <2>3, <2>4, <2>5
<1>4. CASE Disambiguate
  <2> USE <1>4 DEF Disambiguate, IInv, Current, Taken
  <2>0. Len(placed) \in Nat /\ Len(items) \in Nat /\ Len(placed) < Len(items)
    BY DEF Types, Tried
  <2>1. label' \in Label
    <3>1. label \in Label /\ Len(placed) \in Index
      BY <2>0, SizesAreNat DEF Types, Index
    <3>2. label.tail \in Seq(Index)
      BY <3>1 DEF Label
    <3>3. Append(label.tail, Len(placed)) \in Seq(Index)
      BY <3>1, <3>2
    <3> QED
      BY <3>1, <3>3 DEF Suffixed, Label
  <2>2. Types' /\ Complete'
    BY <2>1 DEF Types, Complete, request
  <2>3. Images' = Images /\ EveryDownloadKept'
    BY DEF Images, EveryDownloadKept
  <2>4. Tried'
    BY <2>0, <2>1, <2>3 DEF Tried, Reported, request
  <2>5. Looked' /\ RefusedCouldNotRun'
    BY DEF Looked, Calm, Candidate, RefusedCouldNotRun, Matching, request
  <2> QED
    BY <2>2, <2>3, <2>4, <2>5
<1>5. CASE PlaceDownload
  <2> USE <1>5 DEF PlaceDownload, IInv, Current, Taken
  <2>0. Len(placed) \in Nat /\ Len(items) \in Nat /\ Len(placed) < Len(items) /\ label \in Label
    BY DEF Types, Tried
  <2>1. /\ placed' \in Seq(Label) /\ Len(placed') = Len(placed) + 1
        /\ EveryDownloadKept' /\ Images' = Images \cup {label}
    BY <2>0, AppendKeeps DEF Types
  <2>2. Types' /\ Complete'
    BY <2>0, <2>1 DEF Types, Complete, request
  <2>4. Tried'
    <3> DEFINE n == Len(placed) + 1
    <3>1. \A k \in 1..Len(placed) : items[k] # None => items[k] \in Images'
      BY <2>1 DEF Tried, Reported
    <3>2. items[n] # None => items[n] \in Images'
      BY <2>1 DEF Tried
    <3>3. items' = items /\ label' = None /\ 1..Len(placed') = 1..Len(placed) \cup {n}
      BY <2>0, <2>1 DEF request
    <3> QED
      BY <3>1, <3>2, <3>3 DEF Tried, Reported
  <2>5. Looked' /\ RefusedCouldNotRun'
    BY DEF Looked, Calm, Candidate, RefusedCouldNotRun, Matching, request
  <2> QED
    BY <2>1, <2>2, <2>4, <2>5
<1>6. ASSUME NEW accepted \in BOOLEAN, Submit(accepted) PROVE IInv'
  <2> USE <1>6 DEF Submit, IInv, Current
  <2>1. EveryDownloadKept' /\ Tried'
    BY LabelsKept
  <2>2. Types' /\ Complete'
    BY DEF Types, Complete, Building, Done, request
  <2>3. Looked' /\ RefusedCouldNotRun'
    BY DEF Looked, Calm, Candidate, RefusedCouldNotRun, request
  <2> QED
    BY <2>1, <2>2, <2>3
<1>7. ASSUME NEW d \in Device, Schedule(d) PROVE IInv'
  <2> USE <1>7 DEF Schedule, IInv
  <2>1. label = None /\ EveryDownloadKept' /\ Tried'
    BY LabelsKept DEF Tried
  <2>2. Types' /\ Complete'
    BY DEF Types, Complete, Building, Done, request
  <2>3. Looked' /\ RefusedCouldNotRun'
    BY DEF Looked, Calm, Candidate, RefusedCouldNotRun, request
  <2> QED
    BY <2>1, <2>2, <2>3
<1>8. ASSUME NEW d \in Device, AdminChanges(d) PROVE IInv'
  <2> USE <1>8 DEF AdminChanges, IInv, Toggled
  <2>1. EveryDownloadKept' /\ Tried'
    BY LabelsKept
  <2>2. Types' /\ Complete' /\ changes' # 0
    BY DEF Types, Complete, request
  <2> QED
    BY <2>1, <2>2 DEF Looked, Calm, RefusedCouldNotRun
<1>9. CASE UNCHANGED vars
  <2>1. EveryDownloadKept' /\ Tried'
    BY <1>9, LabelsKept DEF vars
  <2> QED
    BY <1>9, <2>1
    DEF vars, request, IInv, Types, Looked, Calm, Candidate, RefusedCouldNotRun, Matching, Complete
<1> QED
  BY <1>1, <1>2, <1>3, <1>4, <1>5, <1>6, <1>7, <1>8, <1>9 DEF Next, Builds

LEMMA Invariance == Spec => []IInv
BY InitInv, StepInv, PTL DEF Spec

\* The parts of TypeOK that nothing above depends on.
Action == [kind : {"services", "deploy", "test"}, namespace : {"console", "board", None}]
Outcome == actions \in Seq(Action) /\ device \in Device \cup {None} /\ changes \in 0..MaxChanges

LEMMA OutcomeStep == Types /\ Outcome /\ [Next]_vars => Outcome'
<1> SUFFICES ASSUME Types, Outcome, [Next]_vars PROVE Outcome'
  OBVIOUS
<1> USE DEF Outcome
<1>1. CASE UNCHANGED <<actions, device, changes>>
  BY <1>1
<1>2. ASSUME NEW accepted \in BOOLEAN, Submit(accepted) PROVE Outcome'
  <2> DEFINE services_ == [kind |-> "services", namespace |-> "console"]
             deploy_ == [kind |-> "deploy", namespace |-> "board"]
             test_ == [kind |-> "test", namespace |-> BoardNamespace]
             job == If(console, services_) \o If(items # <<>>, deploy_) \o <<test_>>
  <2>1. services_ \in Action /\ deploy_ \in Action /\ test_ \in Action
    BY DEF Action, BoardNamespace
  <2>2. ASSUME NEW condition, NEW a \in Action PROVE If(condition, a) \in Seq(Action)
    BY DEF If
  <2>3. If(console, services_) \in Seq(Action) /\ If(items # <<>>, deploy_) \in Seq(Action)
    <3> HIDE DEF services_, deploy_
    <3> QED
      BY <2>1, <2>2
  <2>4. <<test_>> \in Seq(Action)
    BY <2>1
  <2>5. job \in Seq(Action)
    <3> DEFINE one == If(console, services_)
               two == If(items # <<>>, deploy_)
               three == <<test_>>
    <3>1. one \in Seq(Action) /\ two \in Seq(Action) /\ three \in Seq(Action)
      BY <2>3, <2>4
    <3> HIDE DEF one, two, three
    <3>2. one \o two \in Seq(Action)
      BY <3>1, ConcatProperties
    <3>3. (one \o two) \o three \in Seq(Action)
      BY <3>1, <3>2, ConcatProperties
    <3> QED
      BY <3>3 DEF one, two, three
  <2>6. actions' = job /\ device' = device /\ changes' = changes
    BY <1>2 DEF Submit
  <2> HIDE DEF job
  <2> QED
    BY <2>5, <2>6
<1>3. ASSUME NEW d \in Device, Schedule(d) PROVE Outcome'
  BY <1>3 DEF Schedule
<1>4. ASSUME NEW d \in Device, AdminChanges(d) PROVE Outcome'
  BY <1>4, SizesAreNat DEF AdminChanges, Types
<1> QED
  BY <1>1, <1>2, <1>3, <1>4
  DEF Next, Builds, vars, RequireRemoteAccess, RequireTestServices, BeginDownload,
      Disambiguate, PlaceDownload

\* The request, the checks and the job have their types.
THEOREM TypeCorrect == Spec => []TypeOK
<1>1. Init => Outcome
  BY SizesAreNat DEF Init, Outcome
<1>2. IInv /\ Outcome => TypeOK
  BY DEF IInv, Types, Outcome, Action, TypeOK
<1>3. IInv => Types
  BY DEF IInv
<1> QED
  BY <1>1, <1>2, <1>3, OutcomeStep, Invariance, PTL DEF Spec

\* No two downloads of a job get one label.
THEOREM DownloadsKept == Spec => []EveryDownloadKept
BY Invariance, PTL DEF IInv

\* Every reported path whose basename is not empty is that of a download.
THEOREM ReportedPathsExist == Spec => []ReportedExists
<1>1. IInv => ReportedExists
  BY DEF IInv, Types, Tried, Reported, Complete, ReportedExists, DownloadLabel
<1> QED
  BY <1>1, Invariance, PTL

\* What the checks let through can run somewhere.
THEOREM SubmittedRuns == Spec => []SubmittedCanRun
<1>1. IInv => SubmittedCanRun
  BY SomeDevice DEF IInv, Types, Looked, Calm, SubmittedCanRun, Matching, Candidate
<1> QED
  BY <1>1, Invariance, PTL

\* What they refuse could not.
THEOREM RefusalsJustified == Spec => []RefusedCouldNotRun
BY Invariance, PTL DEF IInv

-----------------------------------------------------------------------------
(***************************************************************************)
(* The namespaces.  The actions are put together once, from what the       *)
(* request still says afterwards (Built), so there are four jobs.          *)
(***************************************************************************)
Services == [kind |-> "services", namespace |-> "console"]
Deploy == [kind |-> "deploy", namespace |-> "board"]
Test == [kind |-> "test", namespace |-> BoardNamespace]

Built == actions \in {<<>>, If(console, Services) \o If(items # <<>>, Deploy) \o <<Test>>}

\* Two and three actions in a row.
LEMMA Pair ==
  ASSUME NEW S, NEW a \in S, NEW b \in S
  PROVE  <<a>> \o <<b>> = <<a, b>>
<1>1. <<a>> \in Seq(S) /\ <<b>> \in Seq(S) /\ <<a, b>> \in Seq(S)
      /\ Len(<<a>>) = 1 /\ Len(<<b>>) = 1 /\ Len(<<a, b>>) = 2
  OBVIOUS
<1>2. <<a>> \o <<b>> \in Seq(S) /\ Len(<<a>> \o <<b>>) = 2
  BY <1>1, ConcatProperties
<1>3. (<<a>> \o <<b>>)[1] = a /\ (<<a>> \o <<b>>)[2] = b
  BY <1>1, ConcatProperties
<1>4. \A i \in 1..2 : (<<a>> \o <<b>>)[i] = <<a, b>>[i]
  BY <1>3
<1> QED
  BY <1>1, <1>2, <1>4, SeqEqual

LEMMA Triple ==
  ASSUME NEW S, NEW a \in S, NEW b \in S, NEW c \in S
  PROVE  <<a>> \o <<b>> \o <<c>> = <<a, b, c>>
<1>1. <<a, b>> \in Seq(S) /\ <<c>> \in Seq(S) /\ <<a, b, c>> \in Seq(S)
      /\ Len(<<a, b>>) = 2 /\ Len(<<c>>) = 1 /\ Len(<<a, b, c>>) = 3
  OBVIOUS
<1>2. <<a, b>> \o <<c>> \in Seq(S) /\ Len(<<a, b>> \o <<c>>) = 3
  BY <1>1, ConcatProperties
<1>3. /\ (<<a, b>> \o <<c>>)[1] = a
      /\ (<<a, b>> \o <<c>>)[2] = b
      /\ (<<a, b>> \o <<c>>)[3] = c
  BY <1>1, ConcatProperties
<1>4. \A i \in 1..3 : (<<a, b>> \o <<c>>)[i] = <<a, b, c>>[i]
  BY <1>3
<1>5. <<a, b>> \o <<c>> = <<a, b, c>>
  BY <1>1, <1>2, <1>4, SeqEqual
<1> QED
  BY <1>5, Pair

\* The four jobs.
LEMMA FourJobs ==
  ASSUME console \in BOOLEAN, Built
  PROVE  \/ actions = <<>>
         \/ console /\ items # <<>> /\ actions = <<Services, Deploy, Test>>
         \/ console /\ items = <<>> /\ actions = <<Services, Test>>
         \/ ~console /\ items # <<>> /\ actions = <<Deploy, Test>>
         \/ ~console /\ items = <<>> /\ actions = <<Test>>
<1> DEFINE Kind == {Services, Deploy, Test}
<1>1. actions = <<>> \/ actions = If(console, Services) \o If(items # <<>>, Deploy) \o <<Test>>
  BY DEF Built
<1>2. /\ <<Services>> \o <<Deploy>> \o <<Test>> = <<Services, Deploy, Test>>
      /\ <<Services>> \o <<Test>> = <<Services, Test>>
      /\ <<Deploy>> \o <<Test>> = <<Deploy, Test>>
  <2>1. Services \in Kind /\ Deploy \in Kind /\ Test \in Kind
    OBVIOUS
  <2> QED
    BY <2>1, Pair, Triple
<1>3. \A a \in Kind : <<a>> \o <<>> = <<a>> /\ <<>> \o <<a>> = <<a>>
  <2>1. \A a \in Kind : <<a>> \in Seq(Kind)
    OBVIOUS
  <2> QED
    BY <2>1, ConcatEmptySeq
<1>4. <<>> \o <<>> = <<>>
  OBVIOUS
<1> QED
  BY <1>1, <1>2, <1>3, <1>4 DEF If

\* Either all actions of the job are named or none is, and the board's container
\* has the downloads in its namespace, deployed before it.
THEOREM NamespacesMatch == Spec => []NamespacesAgree
<1>1. Init => Built
  BY DEF Init, Built
<1>2. Built /\ [Next]_vars => Built'
  <2> SUFFICES ASSUME Built, [Next]_vars PROVE Built'
    OBVIOUS
  <2>1. UNCHANGED request
    BY DEF Next, Builds, vars, RequireRemoteAccess, RequireTestServices, BeginDownload,
           Disambiguate, PlaceDownload, Submit, Schedule, AdminChanges
  <2>2. CASE UNCHANGED actions
    BY <2>1, <2>2 DEF Built, request, If, Test, BoardNamespace
  <2>3. CASE \E accepted \in BOOLEAN : Submit(accepted)
    BY <2>1, <2>3 DEF Built, Submit, request, If, Services, Deploy, Test, BoardNamespace
  <2> QED
    BY <2>2, <2>3
    DEF Next, Builds, vars, RequireRemoteAccess, RequireTestServices, BeginDownload,
        Disambiguate, PlaceDownload, Schedule, AdminChanges
<1>3. Types /\ Built => NamespacesAgree
  <2> SUFFICES ASSUME Types, Built PROVE NamespacesAgree
    OBVIOUS
  <2> USE DEF NamespacesAgree, Services, Deploy, Test, BoardNamespace
  <2>1. "board" # None /\ "console" # None
    BY NoneIsNoMember
  <2>2. CASE actions = <<>>
    BY <2>2
  <2>3. CASE console /\ items # <<>> /\ actions = <<Services, Deploy, Test>>
    <3>1. DOMAIN actions = 1..3
      BY <2>3
    <3>2. /\ actions[1] = Services /\ actions[2] = Deploy /\ actions[3] = Test
      BY <2>3
    <3> QED
      BY <2>1, <2>3, <3>1, <3>2
  <2>4. CASE console /\ items = <<>> /\ actions = <<Services, Test>>
    <3>1. DOMAIN actions = 1..2 /\ actions[1] = Services /\ actions[2] = Test
      BY <2>4
    <3> QED
      BY <2>1, <2>4, <3>1
  <2>5. CASE ~console /\ items # <<>> /\ actions = <<Deploy, Test>>
    <3>1. DOMAIN actions = 1..2 /\ actions[1] = Deploy /\ actions[2] = Test
      BY <2>5
    <3> QED
      BY <2>1, <2>5, <3>1
  <2>6. CASE ~console /\ items = <<>> /\ actions = <<Test>>
    <3>1. DOMAIN actions = 1..1 /\ actions[1] = Test
      BY <2>6
    <3> QED
      BY <3>1
  <2> QED
    BY <2>2, <2>3, <2>4, <2>5, <2>6, FourJobs DEF Types
<1> QED
  BY <1>1, <1>2, <1>3, Invariance, PTL DEF Spec, IInv
=============================================================================
