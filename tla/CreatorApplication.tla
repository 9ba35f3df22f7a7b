------------------------- MODULE CreatorApplication -------------------------
(***************************************************************************)
(* Becoming a creator: the form of four steps, the status the creator      *)
(* store keeps in each tab, and CreatorService.apply, which reads the      *)
(* status first and then stores the application and the approval in one    *)
(* transaction.                                                            *)
(***************************************************************************)
EXTENDS Naturals, FiniteSets

CONSTANTS
    AppTab,        \* browser tabs of one user
    Pitch,         \* what an application may say
    MaxCalls,      \* bound: requests, numbered
    MaxAppFaults,  \* bound: requests that fail or whose answer is lost
    Blank          \* nothing written, no application

ASSUME ApplicationAssumption == Blank \notin Pitch \cup AppTab /\ MaxCalls \in Nat /\ MaxAppFaults \in Nat

VARIABLES
    creatorStatus,  \* Postgres: User.creatorStatus
    application,    \* Postgres: the CreatorApplication row
    known,          \* store: creatorStatus in each tab
    checked,        \* store: tabs with applicationChecked
    place,             \* the page of each tab: "elsewhere", "reader", "apply" or "studio"
    entered,          \* apply page: step and fields
    submitting,     \* apply page: tabs that wait for an answer
    posted,          \* requests in flight; tab is Blank if nobody waits any more
    callCount, appFaults,  \* counters for the bounds
    first,          \* history: the application stored first
    together,       \* history: two applications were examined at once
    behind          \* history: tabs that were not told of the approval

pageOf          == <<place, entered, submitting>>
applicationVars == <<creatorStatus, application, known, checked, pageOf, posted, callCount,
                     appFaults, first, together, behind>>

-----------------------------------------------------------------------------
NoDraft == [step |-> 0, pitch |-> Blank, tooling |-> FALSE]

ApplicationInit ==
    /\ creatorStatus = "NONE" /\ application = Blank
    /\ known = [t \in AppTab |-> "NONE"] /\ checked = {}
    /\ place = [t \in AppTab |-> "elsewhere"] /\ entered = [t \in AppTab |-> NoDraft]
    /\ submitting = {} /\ posted = {} /\ callCount = 0 /\ appFaults = 0
    /\ first = Blank /\ together = FALSE /\ behind = {}

Call(t, kind, pitch) ==
    /\ callCount < MaxCalls /\ callCount' = callCount + 1
    /\ posted' = posted \cup {[number |-> callCount, tab |-> t, kind |-> kind, pitch |-> pitch,
                             pc |-> "asked", answer |-> "NONE"]}
\* The tab has gone, or has given up, and the server goes on.
Unheard(c) == [c EXCEPT !.tab = Blank]

Become(c, pcNext, answer) == posted' = (posted \ {c}) \cup {[c EXCEPT !.pc = pcNext, !.answer = answer]}

\* The reader's shell is mounted: the status is asked for unless a check has succeeded.
readerShell(t) ==
    /\ place[t] # "reader" /\ place' = [place EXCEPT ![t] = "reader"]
    /\ submitting' = submitting \ {t} /\ entered' = [entered EXCEPT ![t] = NoDraft]
    /\ IF t \in checked THEN UNCHANGED <<posted, callCount>> ELSE Call(t, "check", Blank)
    /\ UNCHANGED <<creatorStatus, application, known, checked, appFaults, first, together, behind>>

\* The link of the reader's shell leads to the studio if the tab takes the reader for a
\* creator, and to the form if not.
becomeACreator(t) ==
    /\ place[t] = "reader"
    /\ place' = [place EXCEPT ![t] = IF known[t] = "APPROVED" THEN "studio" ELSE "apply"]
    /\ UNCHANGED <<creatorStatus, application, known, checked, entered, submitting, posted,
                   callCount, appFaults, first, together, behind>>

\* The sidebar of the creator's pages leads to the studio, from the form too, and a typed
\* address leads to either: no page asks whether the reader is a creator.  (The server does,
\* at every request of the studio.)
creatorShell(t) ==
    /\ \E p \in {"apply", "studio"} :
          /\ place[t] = "elsewhere" \/ (place[t] = "apply" /\ p = "studio")
          /\ place' = [place EXCEPT ![t] = p]
    /\ submitting' = submitting \ {t} /\ entered' = [entered EXCEPT ![t] = NoDraft]
    /\ UNCHANGED <<creatorStatus, application, known, checked, posted, callCount, appFaults, first,
                   together, behind>>

\* The fields, each while its step is shown; what is not valid is as good as blank.
fill(t) ==
    /\ place[t] = "apply"
    /\ \/ entered[t].step = 0 /\ \E p \in Pitch : entered' = [entered EXCEPT ![t].pitch = p]
       \/ entered[t].step = 2 /\ entered' = [entered EXCEPT ![t].tooling = TRUE]
    /\ entered' # entered
    /\ UNCHANGED <<creatorStatus, application, known, checked, place, submitting, posted, callCount,
                   appFaults, first, together, behind>>

\* validateStep: a step is left once its field will do.  (The cadence always will.)
validStep(d) == (d.step = 0 => d.pitch # Blank) /\ (d.step = 2 => d.tooling)

nextStep(t) ==
    /\ place[t] = "apply" /\ entered[t].step < 3 /\ validStep(entered[t])
    /\ entered' = [entered EXCEPT ![t].step = @ + 1]
    /\ UNCHANGED <<creatorStatus, application, known, checked, place, submitting, posted, callCount,
                   appFaults, first, together, behind>>

previousStep(t) ==
    /\ place[t] = "apply" /\ entered[t].step > 0
    /\ entered' = [entered EXCEPT ![t].step = @ - 1]
    /\ UNCHANGED <<creatorStatus, application, known, checked, place, submitting, posted, callCount,
                   appFaults, first, together, behind>>

\* handleSubmit: the button of the last step, unless a submission is under way; and Enter in
\* the only field of the third, which no button guards.  The whole form must be valid.
handleApply(t) ==
    /\ place[t] = "apply"
    /\ entered[t].step = 2 \/ (entered[t].step = 3 /\ t \notin submitting)
    /\ entered[t].pitch # Blank /\ entered[t].tooling
    /\ submitting' = submitting \cup {t} /\ Call(t, "apply", entered[t].pitch)
    /\ UNCHANGED <<creatorStatus, application, known, checked, place, entered, appFaults, first,
                   together, behind>>

-----------------------------------------------------------------------------
\* getApplicationStatus reads the status.
getApplicationStatus(c) ==
    /\ c.kind = "check" /\ c.pc = "asked" /\ Become(c, "answered", creatorStatus)
    /\ UNCHANGED <<creatorStatus, application, known, checked, pageOf, callCount, appFaults,
                   first, together, behind>>

\* apply: who is a creator already is refused;
findApplicant(c) ==
    /\ c.kind = "apply" /\ c.pc = "asked"
    /\ IF creatorStatus = "APPROVED" THEN Become(c, "refused", "NONE") ELSE Become(c, "store", "NONE")
    /\ together' = (together \/ \E d \in posted : d.pc = "store")
    /\ UNCHANGED <<creatorStatus, application, known, checked, pageOf, callCount, appFaults,
                   first, behind>>

\* Tabs that will not learn of an approval by themselves: those that have checked, or whose
\* check was answered before it, but for the one that is told.
uninformed(c) ==
    {t \in AppTab : \/ t \in checked \ {c.tab}
                    \/ \E d \in posted : d.kind = "check" /\ d.pc = "answered" /\ d.tab = t}

\* the application is stored, over one that is there, and in the same transaction the user
\* is approved.
storeApplication(c) ==
    /\ c.pc = "store" /\ Become(c, "answered", "APPROVED")
    /\ application' = c.pitch /\ creatorStatus' = "APPROVED"
    /\ first' = (IF first = Blank THEN c.pitch ELSE first)
    /\ behind' = behind \cup uninformed(c)
    /\ UNCHANGED <<known, checked, pageOf, callCount, appFaults, together>>

-----------------------------------------------------------------------------
\* The store takes what a check answered, however old it is.
statusChecked(c) ==
    /\ c.kind = "check" /\ c.pc = "answered" /\ c.tab # Blank /\ posted' = posted \ {c}
    /\ known' = [known EXCEPT ![c.tab] = c.answer] /\ checked' = checked \cup {c.tab}
    /\ UNCHANGED <<creatorStatus, application, pageOf, callCount, appFaults, first, together, behind>>

\* The application was taken: the store knows, and the tab goes to the studio, even if the
\* form was left.
approved(c) ==
    /\ c.kind = "apply" /\ c.pc = "answered" /\ c.tab # Blank /\ posted' = posted \ {c}
    /\ known' = [known EXCEPT ![c.tab] = "APPROVED"] /\ checked' = checked \cup {c.tab}
    /\ place' = [place EXCEPT ![c.tab] = "studio"] /\ entered' = [entered EXCEPT ![c.tab] = NoDraft]
    /\ submitting' = submitting \ {c.tab}
    /\ UNCHANGED <<creatorStatus, application, callCount, appFaults, first, together, behind>>

\* A refusal is shown on the form; the store is not told that the user is a creator.
applyRefused(c) ==
    /\ c.pc = "refused" /\ c.tab # Blank /\ posted' = posted \ {c} /\ submitting' = submitting \ {c.tab}
    /\ UNCHANGED <<creatorStatus, application, known, checked, place, entered, callCount, appFaults,
                   first, together, behind>>

\* A request fails, or its answer is lost, or the client gives up after 15 s while the server
\* goes on; a check is made again when the shell is mounted again.
callLost(c) ==
    /\ appFaults < MaxAppFaults /\ appFaults' = appFaults + 1
    /\ posted' = posted \ {c} \/ (c.tab # Blank /\ posted' = (posted \ {c}) \cup {Unheard(c)})
    /\ submitting' = IF c.kind = "apply" THEN submitting \ {c.tab} ELSE submitting
    /\ behind' = IF c.kind = "apply" /\ c.pc = "answered" THEN behind \cup ({c.tab} \cap AppTab) ELSE behind
    /\ UNCHANGED <<creatorStatus, application, known, checked, place, entered, callCount, first, together>>

\* An answer for which nobody waits.
unheard(c) ==
    /\ c.tab = Blank /\ c.pc \in {"answered", "refused"} /\ posted' = posted \ {c}
    /\ UNCHANGED <<creatorStatus, application, known, checked, pageOf, callCount, appFaults, first,
                   together, behind>>

\* The page is loaded afresh: the stores forget, and the server goes on with what it was asked.
reload(t) ==
    /\ place[t] # "elsewhere"
    /\ posted' = {IF c.tab = t THEN Unheard(c) ELSE c : c \in posted}
    /\ known' = [known EXCEPT ![t] = "NONE"] /\ checked' = checked \ {t}
    /\ place' = [place EXCEPT ![t] = "elsewhere"] /\ entered' = [entered EXCEPT ![t] = NoDraft]
    /\ submitting' = submitting \ {t} /\ behind' = behind \ {t}
    /\ UNCHANGED <<creatorStatus, application, callCount, appFaults, first, together>>

ApplicationNext ==
    \/ \E t \in AppTab : readerShell(t) \/ becomeACreator(t) \/ creatorShell(t) \/ fill(t) \/ nextStep(t) \/ previousStep(t)
                         \/ handleApply(t) \/ reload(t)
    \/ \E c \in posted : getApplicationStatus(c) \/ findApplicant(c) \/ storeApplication(c)
                        \/ statusChecked(c) \/ approved(c) \/ applyRefused(c) \/ callLost(c)
                        \/ unheard(c)

ApplicationSpec == ApplicationInit /\ [][ApplicationNext]_applicationVars

-----------------------------------------------------------------------------
\* The application a user is approved for is the first that was stored, unless two were
\* examined at once: a second one is refused, not written over the first.
FirstApplicationStays ==
    /\ (application # Blank) = (creatorStatus = "APPROVED")
    /\ ~together => application = first

\* A tab takes a reader for a creator only if the server does; and one that has checked, and
\* waits for nothing, knows a creator for one, unless it had checked, or its check had been
\* answered, before another tab or its own form brought the approval, or that answer was lost.
StatusTold ==
    \A t \in AppTab :
        /\ known[t] = "APPROVED" => creatorStatus = "APPROVED"
        /\ t \in checked \ behind /\ (\A c \in posted : c.tab # t) => known[t] = creatorStatus

ApplicationSound == FirstApplicationStays /\ StatusTold
=============================================================================
