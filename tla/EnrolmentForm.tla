---------------------------- MODULE EnrolmentForm ----------------------------
(***************************************************************************)
(* The form for a new student: NewStudentPage, and what the backend's      *)
(* enrolment does with what it sends as far as the person, the plan, the   *)
(* modalities and the classes go (Academic has the rows that are written). *)
(*                                                                         *)
(* The lists of the form are read once, when the page opens; plans,        *)
(* modalities and classes may be withdrawn afterwards.  Classes without a  *)
(* place are listed like the others.  A request that takes longer than the *)
(* client's timeout is given up, and may have been, or may yet be, carried *)
(* out.                                                                    *)
(***************************************************************************)
EXTENDS FiniteSets, Naturals, Sequences

CONSTANTS
  Offers,       \* the plans, modalities and classes that may be chosen
  Plans, Disciplines, Courses,   \* of them: plans, modalities, classes
  DisciplineOf, \* the modality of a class
  Cpfs, Mails,  \* what identifies a person
  MaxSubmits    \* bound: requests sent by the page

VARIABLES
  offered,      \* the offers that are active, with an active teacher
  full,         \* the classes that have no place left
  lists,        \* catalogs: the offers the page has read, or what became of reading them
  draft,        \* the form
  submitting,   \* submittingRef
  notice,       \* error: what the page says
  posted,       \* the requests that were sent, and how they went
  people        \* the persons enrolled, by the request that did

formVars == <<offered, full, lists, draft, submitting, notice, posted, people>>

\* Plans, modalities and classes are rows of three tables.
ASSUME FormAssumption ==
  /\ Offers = Plans \cup Disciplines \cup Courses
  /\ Plans \cap Disciplines = {} /\ Plans \cap Courses = {} /\ Disciplines \cap Courses = {}
  /\ DisciplineOf \in [Courses -> Disciplines]

-----------------------------------------------------------------------------
\* A person is known by the CPF and by the e-mail; of the optional sections, for address
\* and responsible, and of the rest it matters whether something is missing or wrong.
Person == [cpf : Cpfs, email : Mails]
NoPerson == [cpf |-> "", email |-> ""]
Sections == {"optional", "rest"}
Draft ==
  [person : Person \cup {NoPerson}, plan : Plans \cup {"none"}, modalityIds : SUBSET Disciplines,
   classIds : SUBSET Courses, wrong : SUBSET Sections]
Refusals == {"duplicate", "unavailable", "incompatible", "full", "failed"}
Posted ==
  [person : Person, chosen : SUBSET Offers, kept : BOOLEAN,
   stage : {"sent", "checked", "ok"} \cup Refusals]

FormTypeOK ==
  /\ offered \subseteq Offers /\ full \subseteq Courses
  /\ lists.phase \in {"loading", "failed", "ready"} /\ lists.read \subseteq Offers
  /\ draft \in Draft /\ submitting \in BOOLEAN
  /\ notice \in {"none", "left", "review"} \cup Refusals
  /\ \A n \in DOMAIN posted : posted[n] \in Posted
  /\ \A n \in DOMAIN people : people[n] \in Person

-----------------------------------------------------------------------------
(* The page *)

\* Promise.all of the three lists: all of them, or the page stays closed.
LoadLists ==
  /\ lists.phase = "loading"
  /\ lists' \in {[phase |-> "ready", read |-> offered], [phase |-> "failed", read |-> {}]}
  /\ UNCHANGED <<offered, full, draft, submitting, notice, posted, people>>

\* The fieldsets are there once the lists are, and disabled while submitting.
Editable == lists.phase = "ready" /\ ~ submitting /\ notice # "left"

AvailableClasses == {c \in lists.read \cap Courses : DisciplineOf[c] \in draft.modalityIds}

Edit(new) ==
  /\ Editable
  /\ draft' = new
  /\ UNCHANGED <<offered, full, lists, submitting, notice, posted, people>>

EditPerson(person) == Edit([draft EXCEPT !.person = person])
EditOptional(wrong) == Edit([draft EXCEPT !.wrong = (@ \ {"optional"}) \cup wrong])
EditRest(wrong) == Edit([draft EXCEPT !.wrong = (@ \ {"rest"}) \cup wrong])

\* handlePlan, from the plans of the list.
ChoosePlan(plan) == plan \in lists.read \cap Plans /\ Edit([draft EXCEPT !.plan = plan])

Toggle(S, e) == IF e \in S THEN S \ {e} ELSE S \cup {e}

\* Mutant of ToggleModality: the classes of the modality stay chosen.
ToggleModalityOnly(m) ==
  /\ m \in lists.read \cap Disciplines
  /\ Edit([draft EXCEPT !.modalityIds = Toggle(@, m)])

\* The classes of a modality that is ticked or unticked are unticked.
ToggleModality(m) ==
  /\ m \in lists.read \cap Disciplines
  /\ Edit([draft EXCEPT !.modalityIds = Toggle(@, m),
                        !.classIds = {c \in @ : DisciplineOf[c] # m}])

ToggleClass(c) ==
  /\ c \in AvailableClasses
  /\ Edit([draft EXCEPT !.classIds = Toggle(@, c)])

\* nextErrors is empty.
Complete ==
  /\ draft.person # NoPerson /\ draft.wrong = {}
  /\ draft.plan # "none" /\ draft.modalityIds # {} /\ draft.classIds # {}

Chosen == {draft.plan} \cup draft.modalityIds \cup draft.classIds

\* Mutant of Submit: a submit under way does not stop the next.
SubmitAgain ==
  /\ lists.phase = "ready" /\ notice # "left"
  /\ Complete
  /\ Len(posted) < MaxSubmits
  /\ submitting' = TRUE /\ notice' = "none"
  /\ posted' = Append(posted, [person |-> draft.person, chosen |-> Chosen, kept |-> TRUE, stage |-> "sent"])
  /\ UNCHANGED <<offered, full, lists, draft, people>>

\* submit of a form with something missing or wrong.
SubmitRefused ==
  /\ Editable /\ ~ Complete
  /\ notice' = "review"
  /\ UNCHANGED <<offered, full, lists, draft, submitting, posted, people>>

Submit ==
  /\ Editable /\ Complete
  /\ Len(posted) < MaxSubmits
  /\ submitting' = TRUE /\ notice' = "none"
  /\ posted' = Append(posted, [person |-> draft.person, chosen |-> Chosen, kept |-> TRUE, stage |-> "sent"])
  /\ UNCHANGED <<offered, full, lists, draft, people>>

\* The answer arrives: the page goes to the student, or says what went wrong and
\* is a form again.
ReceiveEnrolment(n) ==
  /\ posted[n].kept /\ posted[n].stage \notin {"sent", "checked"}
  /\ posted' = [posted EXCEPT ![n].kept = FALSE]
  /\ IF posted[n].stage = "ok" THEN notice' = "left" /\ UNCHANGED submitting
     ELSE notice' = posted[n].stage /\ submitting' = FALSE
  /\ UNCHANGED <<offered, full, lists, draft, people>>

\* The client's timeout, or a connection that fails: the same, without an answer.
GiveUpEnrolment(n) ==
  /\ posted[n].kept
  /\ posted' = [posted EXCEPT ![n].kept = FALSE]
  /\ notice' = "failed" /\ submitting' = FALSE
  /\ UNCHANGED <<offered, full, lists, draft, people>>

-----------------------------------------------------------------------------
(* The backend *)

Enrolled == {people[n] : n \in DOMAIN people}
Known(person) == \E p \in Enrolled : p.cpf = person.cpf \/ p.email = person.email

Stage(n, stage) == posted' = [posted EXCEPT ![n].stage = stage]

\* create: the person must be new, what was chosen on offer, the classes of the
\* modalities that were chosen, and not full, in this order, ...
CheckEnrolment(n) ==
  LET r == posted[n]
      courses == r.chosen \cap Courses
  IN
  /\ r.stage = "sent"
  /\ \/ Known(r.person) /\ Stage(n, "duplicate")
     \/ /\ ~ Known(r.person)
        /\ \/ ~ (r.chosen \subseteq offered) /\ Stage(n, "unavailable")
           \/ /\ r.chosen \subseteq offered
              /\ Stage(n, IF \E c \in courses : DisciplineOf[c] \notin r.chosen THEN "incompatible"
                          ELSE IF courses \cap full # {} THEN "full" ELSE "checked")
  /\ UNCHANGED <<offered, full, lists, draft, submitting, notice, people>>

\* ... and the transaction inserts it, if the unique columns of Person still allow it.
CommitEnrolment(n) ==
  LET r == posted[n] IN
  /\ r.stage = "checked"
  /\ IF Known(r.person) THEN Stage(n, "failed") /\ UNCHANGED people
     ELSE Stage(n, "ok") /\ people' = [m \in DOMAIN people \cup {n} |->
                                         IF m = n THEN r.person ELSE people[m]]
  /\ UNCHANGED <<offered, full, lists, draft, submitting, notice>>

\* The request fails in the server, is refused for its other fields, or never gets there.
FailEnrolment(n) ==
  /\ posted[n].stage \in {"sent", "checked"}
  /\ Stage(n, "failed")
  /\ UNCHANGED <<offered, full, lists, draft, submitting, notice, people>>

\* Somebody changes what is on offer.
ChangeOffer(o) ==
  /\ offered' = Toggle(offered, o)
  /\ UNCHANGED <<full, lists, draft, submitting, notice, posted, people>>

\* Somebody takes the last place of a class, or leaves one.
ChangeRoom(c) ==
  /\ full' = Toggle(full, c)
  /\ UNCHANGED <<offered, lists, draft, submitting, notice, posted, people>>

-----------------------------------------------------------------------------
FormInit ==
  /\ offered = Offers /\ full \in SUBSET Courses
  /\ lists = [phase |-> "loading", read |-> {}]
  /\ draft = [person |-> NoPerson, plan |-> "none", modalityIds |-> {}, classIds |-> {}, wrong |-> {"rest"}]
  /\ submitting = FALSE /\ notice = "none"
  /\ posted = <<>> /\ people = [n \in {} |-> <<>>]

FormEdits ==
  \/ \E person \in Person : EditPerson(person)
  \/ \E wrong \in SUBSET {"optional"} : EditOptional(wrong)
  \/ \E wrong \in SUBSET {"rest"} : EditRest(wrong)
  \/ \E plan \in Plans : ChoosePlan(plan)
  \/ \E m \in Disciplines : ToggleModality(m)
  \/ \E c \in Courses : ToggleClass(c)

FormNext ==
  \/ LoadLists
  \/ FormEdits
  \/ SubmitRefused
  \/ Submit
  \/ \E n \in DOMAIN posted :
       \/ ReceiveEnrolment(n) \/ GiveUpEnrolment(n)
       \/ CheckEnrolment(n) \/ CommitEnrolment(n) \/ FailEnrolment(n)
  \/ \E o \in Offers : ChangeOffer(o)
  \/ \E c \in Courses : ChangeRoom(c)

FormSpec == FormInit /\ [][FormNext]_formVars

-----------------------------------------------------------------------------
(* Properties *)

\* What the page lets its user choose fits together: a request is never turned away
\* for a class of a modality that it does not choose, and for a plan, a modality or a
\* class only if the page had read it on offer and it was withdrawn afterwards
\* (AvailableClasses and the checkboxes against the checks of create).  Nothing is
\* said of a class that is full: the page lists it like the others, and create
\* refuses it although nothing may have changed since.
ChoicesFitTogether ==
  [][\A n \in DOMAIN posted : posted[n].stage = "sent" =>
       /\ posted'[n].stage # "incompatible"
       /\ posted'[n].stage = "unavailable" => (posted[n].chosen \cap lists.read) \ offered # {}
    ]_formVars

\* The page never tells its user that the person is enrolled already while the
\* request that enrolled them is still to be answered: a second click does not
\* turn a success into a refusal (submittingRef).
DuplicateOnlyAfterAnswer ==
  notice = "duplicate" => \A n \in DOMAIN people : ~ posted[n].kept
=============================================================================
