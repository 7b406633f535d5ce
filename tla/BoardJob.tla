------------------------------- MODULE BoardJob -------------------------------
(***************************************************************************)
(* The LAVA job of a board session: the checks open_board_session makes    *)
(* before it submits one (server.py), the job that build_interactive_job   *)
(* puts together (jobs.py), and the device LAVA puts it on.                *)
(*                                                                         *)
(* A device has the remote-access tag or not, allows Test Services or not, *)
(* and carries the tags the caller asked for or not; an admin may change   *)
(* the first two while the job waits.  A label is a stem with suffixes:    *)
(* [stem |-> "a", tail |-> <<1, 2>>] stands for a_1_2.  What matters of a  *)
(* URL is the label its sanitized basename is, if anything is left of it.  *)
(***************************************************************************)
EXTENDS Naturals, Sequences, FiniteSets

CONSTANTS
  Device,      \* devices of the requested type
  Stem,        \* what a label may start with
  DefaultStem, \* i -> the stem "dl<i>"
  Basename,    \* the labels that basenames of URLs are
  None,        \* no basename, no device, no namespace
  MaxItems,    \* downloads of one session
  PageSize,    \* devices that are scanned for Test Services
  MaxChanges   \* changes of the inventory by an admin

Index == 0..MaxItems - 1
Label == [stem : Stem, tail : Seq(Index)]

ASSUME SomeDevice == Device # {}
ASSUME SizesAreNat == MaxItems \in Nat /\ PageSize \in Nat /\ MaxChanges \in Nat
ASSUME DefaultsAreStems == DefaultStem \in [Index -> Stem]
ASSUME BasenamesAreLabels == Basename \subseteq Label
ASSUME NoneIsNoMember == None \notin Label \cup Device \cup {"console", "board"}

VARIABLES
  pinning,     \* whether config.remote_access_tag is set
  tagged,      \* devices with that tag
  services,    \* devices with allow_test_services
  asked,       \* devices that carry the caller's own tags
  console,     \* console = True
  items,       \* downloads: what is left of each basename
  pc,
  label,       \* the label tried for the next download
  placed,      \* the labels of the downloads placed, in order
  actions,     \* the actions of the job: kind and namespace
  device,      \* where the job runs
  changes,
  assumed      \* history: LAVA did not answer, or the page was too short

request == <<pinning, asked, console, items>>
vars == <<request, tagged, services, pc, label, placed, actions, device, changes, assumed>>

Building == {"remote_access", "test_services", "downloads"}
Done == {"refused", "submitted", "running", "rejected"}

TypeOK ==
  /\ pinning \in BOOLEAN /\ console \in BOOLEAN /\ assumed \in BOOLEAN
  /\ tagged \subseteq Device /\ services \subseteq Device /\ asked \subseteq Device
  /\ items \in Seq(Basename \cup {None}) /\ Len(items) <= MaxItems
  /\ pc \in Building \cup Done
  /\ label \in Label \cup {None}
  /\ placed \in Seq(Label) /\ Len(placed) <= Len(items)
  /\ actions \in Seq([kind : {"services", "deploy", "test"},
                      namespace : {"console", "board", None}])
  /\ device \in Device \cup {None}
  /\ changes \in 0..MaxChanges

Init ==
  /\ pinning \in BOOLEAN /\ console \in BOOLEAN
  /\ tagged \in SUBSET Device /\ services \in SUBSET Device /\ asked \in SUBSET Device
  /\ \E n \in 0..MaxItems : items \in [1..n -> Basename \cup {None}]
  /\ pc = "remote_access"
  /\ label = None /\ placed = <<>> /\ actions = <<>> /\ device = None
  /\ changes = 0 /\ assumed = FALSE

-----------------------------------------------------------------------------
(* The checks before the job is built.                                     *)

\* The devices both checks look at: those with the tag, if there is one.
MutCandidate == Device
Candidate == IF pinning THEN tagged ELSE Device

\* _require_remote_access_device; without a tag, or an answer, it differs.
RequireRemoteAccess(answered) ==
  /\ pc = "remote_access"
  /\ pc' = IF ~pinning \/ (answered /\ Candidate # {}) THEN "test_services" ELSE "refused"
  /\ assumed' = (assumed \/ (pinning /\ ~answered))
  /\ UNCHANGED <<request, tagged, services, label, placed, actions, device, changes>>

Smaller(m, n) == IF m < n THEN m ELSE n

\* What becomes of a request whose readable candidates are S.
MutPermits(S) == S \subseteq services
Permits(S) == S = {} \/ S \cap services # {}

(***************************************************************************)
(* _require_test_services_device_type: of the first page of candidates it  *)
(* reads those it can; a page it cannot read lets the request pass.        *)
(***************************************************************************)
RequireTestServices(page, read) ==
  /\ pc = "test_services"
  /\ page \subseteq Candidate
  /\ Cardinality(page) = Smaller(PageSize, Cardinality(Candidate))
  /\ read \subseteq page
  /\ pc' = IF console /\ ~Permits(read) THEN "refused" ELSE "downloads"
  /\ assumed' = (assumed \/ (console /\ read # Candidate))
  /\ UNCHANGED <<request, tagged, services, label, placed, actions, device, changes>>

-----------------------------------------------------------------------------
(* build_interactive_job.                                                  *)

\* The index of the next download.
Current == Len(placed)

\* download_label(url, i).
MutDownloadLabel(basename, i) ==
  [stem |-> IF basename # None THEN basename.stem ELSE DefaultStem[i], tail |-> <<i>>]
DownloadLabel(basename, i) ==
  IF basename # None THEN basename ELSE [stem |-> DefaultStem[i], tail |-> <<>>]

\* The label gets the index of its download for a suffix.
Suffixed(l, i) == [l EXCEPT !.tail = Append(@, i)]

Images == {placed[k] : k \in DOMAIN placed}

\* Whether the label tried is in use.
MutTaken(l) == l \in Images /\ l.tail = <<>>
Taken(l) == l \in Images

BeginDownload ==
  /\ pc = "downloads"
  /\ label = None
  /\ Current < Len(items)
  /\ label' = DownloadLabel(items[Current + 1], Current)
  /\ UNCHANGED <<request, tagged, services, pc, placed, actions, device, changes, assumed>>

\* while label in images.
Disambiguate ==
  /\ pc = "downloads"
  /\ label # None
  /\ Taken(label)
  /\ label' = Suffixed(label, Current)
  /\ UNCHANGED <<request, tagged, services, pc, placed, actions, device, changes, assumed>>

PlaceDownload ==
  /\ pc = "downloads"
  /\ label # None
  /\ ~Taken(label)
  /\ placed' = Append(placed, label)
  /\ label' = None
  /\ UNCHANGED <<request, tagged, services, pc, actions, device, changes, assumed>>

\* The namespace of the board action: LAVA's default unless another is named.
MutBoardNamespace == IF console THEN "board" ELSE None
BoardNamespace == IF console \/ items # <<>> THEN "board" ELSE None

If(condition, action) == IF condition THEN <<action>> ELSE <<>>

\* The job is put together and submitted; LAVA may refuse it.
Submit(accepted) ==
  /\ pc = "downloads"
  /\ label = None
  /\ Current = Len(items)
  /\ actions' = If(console, [kind |-> "services", namespace |-> "console"])
                \o If(items # <<>>, [kind |-> "deploy", namespace |-> "board"])
                \o <<[kind |-> "test", namespace |-> BoardNamespace]>>
  /\ pc' = IF accepted THEN "submitted" ELSE "refused"
  /\ assumed' = (assumed \/ ~accepted)
  /\ UNCHANGED <<request, tagged, services, label, placed, device, changes>>

-----------------------------------------------------------------------------
(* LAVA and the admin.                                                     *)

\* The devices that carry the tags of the job: the caller's and the pin.
Matching == IF pinning THEN asked \cap tagged ELSE asked

\* LAVA puts the job on a device with its tags (that it does is assumed); a job with
\* the services needs the device's permission.
Schedule(d) ==
  /\ pc = "submitted"
  /\ d \in Matching
  /\ device' = d
  /\ pc' = IF console /\ d \notin services THEN "rejected" ELSE "running"
  /\ UNCHANGED <<request, tagged, services, label, placed, actions, changes, assumed>>

Toggled(S, d) == IF d \in S THEN S \ {d} ELSE S \cup {d}

AdminChanges(d) ==
  /\ pc \notin {"refused", "running", "rejected"}
  /\ changes < MaxChanges
  /\ changes' = changes + 1
  /\ \/ tagged' = Toggled(tagged, d) /\ services' = services
     \/ services' = Toggled(services, d) /\ tagged' = tagged
  /\ UNCHANGED <<request, pc, label, placed, actions, device, assumed>>

-----------------------------------------------------------------------------
Builds ==
  \/ \E answered \in BOOLEAN : RequireRemoteAccess(answered)
  \/ \E page, read \in SUBSET Device : RequireTestServices(page, read)
  \/ BeginDownload \/ Disambiguate \/ PlaceDownload
  \/ \E accepted \in BOOLEAN : Submit(accepted)

Next ==
  \/ Builds
  \/ \E d \in Device : Schedule(d) \/ AdminChanges(d)

Spec == Init /\ [][Next]_vars

-----------------------------------------------------------------------------
(* Properties.                                                             *)

\* Every download keeps an entry of its own in the images of the deploy action,
\* whatever basenames collide, also with labels that were given a suffix.
EveryDownloadKept ==
  \A j, k \in DOMAIN placed : j # k => placed[j] # placed[k]

\* LAVA refuses a job with a named and an unnamed action; the container sees the
\* downloads only if they are deployed before it and in its namespace.
NamespacesAgree ==
  /\ \A j, k \in DOMAIN actions :
       actions[j].namespace = None => actions[k].namespace = None
  /\ \A j, k \in DOMAIN actions :
       actions[j].kind = "deploy" /\ actions[k].kind = "test" =>
         j < k /\ actions[j].namespace = actions[k].namespace

\* A job the tool submits can run: some device LAVA may put it on permits what it
\* needs, unless the caller's tags exclude all, an admin changed something, or LAVA
\* left a question unanswered.
SubmittedCanRun ==
  pc = "submitted" /\ asked = Device /\ changes = 0 /\ ~assumed =>
    \E d \in Matching : console => d \in services

\* A request is refused only if no device could have run its job, if LAVA answered
\* everything and all candidates are on the page.
RefusedCouldNotRun ==
  pc = "refused" /\ changes = 0 /\ ~assumed =>
    \A d \in Matching : console /\ d \notin services

\* open_board_session reports /lava-downloads/<download_label(url)> for every
\* download: there is a file of that name, if anything is left of the basename.
ReportedExists ==
  pc \in {"submitted", "running"} =>
    \A k \in DOMAIN items : items[k] # None => DownloadLabel(items[k], 0) \in Images
=============================================================================
