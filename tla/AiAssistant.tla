---------------------------- MODULE AiAssistant ----------------------------
(***************************************************************************)
(* The writing assistant: the chat and the suggestions of one creator's    *)
(* tab (ai.store), the modal of the edit page and the panel of the         *)
(* new-chapter page that drive it, and AiController.assist with the        *)
(* validation of its DTO, in front of a language model.                    *)
(*                                                                         *)
(* One store serves every series; its requests are not cancelled when the  *)
(* page or the series changes, and their answers go to whatever chat is    *)
(* there by then.  Lengths are kept as far as the DTO tells them apart.    *)
(***************************************************************************)
EXTENDS Naturals, Sequences, FiniteSets

CONSTANTS
    Story,          \* series with novel format
    Own,            \* those of this creator
    MaxPages,       \* bound: pages opened
    MaxQuestions,   \* bound: requests sent
    MaxAiFaults,    \* bound: requests that fail on the way
    NoStory

ASSUME AiAssumption ==
    /\ Own \subseteq Story /\ NoStory \notin Story
    /\ MaxPages \in Nat /\ MaxQuestions \in Nat /\ MaxAiFaults \in Nat

VARIABLES
    at,         \* the page: "edit", "new" or another, and its series
    panel,      \* AiPanel: "closed", or its tab: "chat", "suggest" or "models"
    timer,      \* AiPanel: the 3 s debounce of auto-suggest is running
    draft,      \* new-chapter page: "few" words, "some", or "long", over 2000 characters
    open,       \* store: the modal
    chatOf,     \* store: seriesId
    messages,   \* store
    loading,    \* store
    suggestion, suggesting, \* store: the series suggested for, or NoStory
    autoMode,   \* store
    calls,      \* requests in flight
    opened, questions, aiFaults   \* counters for the bounds

chat    == <<chatOf, messages, loading>>
advice  == <<suggestion, suggesting>>
aiCount == <<opened, questions, aiFaults>>
aiVars  == <<at, panel, timer, draft, open, chat, advice, autoMode, calls, aiCount>>

-----------------------------------------------------------------------------
\* A message: the question, by number, that it is or answers; an answer may come out
\* empty, or longer than the DTO takes back as history.
Question(n)  == [role |-> "user", number |-> n, fit |-> TRUE]
Answer(n, f) == [role |-> "assistant", number |-> n, fit |-> f]

AiInit ==
    /\ at = [page |-> "other", story |-> NoStory] /\ panel = "closed"
    /\ timer = FALSE /\ draft = "few" /\ open = FALSE
    /\ chatOf = NoStory /\ messages = <<>> /\ loading = FALSE
    /\ suggestion = NoStory /\ suggesting = FALSE /\ autoMode = FALSE
    /\ calls = {} /\ opened = 0 /\ questions = 0 /\ aiFaults = 0

\* A mounted panel starts the session of its series; another series empties the chat,
\* but what is pending, and any suggestion, stays.
initSession(s) ==
    IF chatOf = s THEN UNCHANGED chat
    ELSE chatOf' = s /\ messages' = <<>> /\ UNCHANGED loading

\* The creator opens a page; a draft is the page's own and is lost with it.
openPage(p, s) ==
    /\ opened < MaxPages /\ opened' = opened + 1
    /\ at' = [page |-> p, story |-> s] /\ at' # at
    /\ draft' = "few" /\ timer' = FALSE
    /\ \/ p = "edit" /\ s \in Own /\ panel' = "closed" /\ UNCHANGED chat
       \/ p = "new" /\ panel' = "chat" /\ initSession(s)
    /\ UNCHANGED <<open, advice, autoMode, calls, questions, aiFaults>>

\* The panel is closed, and opened again on its first tab.
togglePanel ==
    /\ at.page = "new" /\ timer' = FALSE
    /\ \/ panel # "closed" /\ panel' = "closed" /\ UNCHANGED chat
       \/ panel = "closed" /\ panel' = "chat" /\ initSession(at.story)
    /\ UNCHANGED <<at, draft, open, advice, autoMode, calls, aiCount>>

\* The effect of the panel: the debounce starts again when its inputs change.
Armed(t, on) == on /\ t = "suggest"

setTab(t) ==
    /\ panel \notin {"closed", t} /\ panel' = t /\ timer' = Armed(t, autoMode)
    /\ UNCHANGED <<at, draft, open, chat, advice, autoMode, calls, aiCount>>

\* A model is chosen: the panel goes back to the chat.  Any model of the list will do; one
\* that the provider refuses is a failed request.
selectModel ==
    /\ panel = "models" /\ panel' = "chat"
    /\ UNCHANGED <<at, timer, draft, open, chat, advice, autoMode, calls, aiCount>>

setAutoMode ==
    /\ panel = "suggest" /\ autoMode' = ~autoMode /\ timer' = Armed(panel, autoMode')
    /\ UNCHANGED <<at, panel, draft, open, chat, advice, calls, aiCount>>

\* The creator types, or inserts an answer of the chat.
write(d) ==
    /\ at.page = "new" /\ draft' = d
    /\ timer' = Armed(panel, autoMode)
    /\ UNCHANGED <<at, panel, open, chat, advice, autoMode, calls, aiCount>>

\* The button of the edit page: the chat changes its series and keeps its messages.
openChat ==
    /\ at.page = "edit" /\ ~open
    /\ open' = TRUE /\ chatOf' = at.story
    /\ UNCHANGED <<at, panel, timer, draft, messages, loading, advice, autoMode, calls, aiCount>>

closeChat ==
    /\ at.page = "edit" /\ open /\ open' = FALSE
    /\ UNCHANGED <<at, panel, timer, draft, chat, advice, autoMode, calls, aiCount>>

-----------------------------------------------------------------------------

\* handleSend, of the panel and of the modal: one question at a time.
mayAsk == chatOf # NoStory /\ ~loading

\* sendMessage: the question joins the chat, and the messages before it go as history.
sendMessage ==
    /\ panel = "chat" \/ (at.page = "edit" /\ open)
    /\ mayAsk /\ questions < MaxQuestions /\ questions' = questions + 1
    /\ messages' = Append(messages, Question(questions')) /\ loading' = TRUE
    /\ calls' = calls \cup {[kind |-> "chat", story |-> chatOf, number |-> questions',
                             fits |-> \A i \in DOMAIN messages : messages[i].fit]}
    /\ UNCHANGED <<at, panel, timer, draft, open, chatOf, advice, autoMode, opened, aiFaults>>

\* generateSuggestion sends up to 3000 characters of the draft in a prompt of at most
\* 2000.
generateSuggestion ==
    /\ questions < MaxQuestions /\ questions' = questions + 1
    /\ suggesting' = TRUE /\ suggestion' = NoStory
    /\ calls' = calls \cup {[kind |-> "suggest", story |-> at.story, number |-> questions',
                             fits |-> draft # "long"]}
    /\ UNCHANGED <<at, panel, draft, open, chat, autoMode, opened, aiFaults>>

\* The button is there when nothing is suggested or being suggested; the debounce of the
\* auto mode does not ask.
suggest == /\ panel = "suggest" /\ suggestion = NoStory /\ ~suggesting /\ draft # "few"
           /\ generateSuggestion /\ UNCHANGED timer

autoSuggest == /\ timer /\ timer' = FALSE
               /\ IF draft # "few" THEN generateSuggestion
                  ELSE UNCHANGED <<at, panel, draft, open, chat, advice, autoMode, calls, aiCount>>

\* Accepted, the suggestion goes into the draft that is open now; either way it is gone.
acceptSuggestion ==
    /\ panel = "suggest" /\ suggestion # NoStory
    /\ suggestion' = NoStory
    /\ draft' \in {draft, "long"} /\ timer' = Armed(panel, autoMode)
    /\ UNCHANGED <<at, panel, open, chat, suggesting, autoMode, calls, aiCount>>

rejectSuggestion ==
    /\ panel = "suggest" /\ suggestion # NoStory /\ suggestion' = NoStory
    /\ UNCHANGED <<at, panel, timer, draft, open, chat, suggesting, autoMode, calls, aiCount>>

-----------------------------------------------------------------------------
\* assist: the creator's own series, and a prompt and history the DTO accepts.
allowed(r) == r.story \in Own /\ r.fits

Concluded(r) == /\ calls' = calls \ {r}
                /\ UNCHANGED <<at, panel, timer, draft, open, chatOf, autoMode, opened, questions>>

\* An answer is added to the chat there is now.
chatAnswered(r, fit) ==
    /\ r.kind = "chat" /\ allowed(r) /\ Concluded(r)
    /\ messages' = Append(messages, Answer(r.number, fit)) /\ loading' = FALSE
    /\ UNCHANGED <<advice, aiFaults>>

\* (mutant) the question stays when its answer fails
takenBack_not(ms) == ms

\* The question that failed, the last message, is taken back.
takenBack(ms) == SubSeq(ms, 1, Len(ms) - 1)

chatFailed(r) ==
    /\ r.kind = "chat" /\ Concluded(r)
    /\ messages' = takenBack(messages) /\ loading' = FALSE
    /\ UNCHANGED advice

suggestionAnswered(r) ==
    /\ r.kind = "suggest" /\ allowed(r) /\ Concluded(r)
    /\ suggestion' = r.story /\ suggesting' = FALSE
    /\ UNCHANGED <<messages, loading, aiFaults>>

suggestionFailed(r) ==
    /\ r.kind = "suggest" /\ Concluded(r)
    /\ suggesting' = FALSE /\ UNCHANGED <<suggestion, messages, loading>>

\* Refused by the controller or its DTO.
refused(r) == ~allowed(r) /\ (chatFailed(r) \/ suggestionFailed(r)) /\ UNCHANGED aiFaults

\* The model, or the way to it, fails or takes longer than the request may.
failed(r) == /\ aiFaults < MaxAiFaults /\ aiFaults' = aiFaults + 1
             /\ chatFailed(r) \/ suggestionFailed(r)

AiNext ==
    \/ \E s \in Story, p \in {"edit", "new"} : openPage(p, s)
    \/ togglePanel \/ setAutoMode \/ openChat \/ closeChat \/ selectModel
    \/ \E t \in {"chat", "suggest", "models"} : setTab(t)
    \/ \E d \in {"few", "some", "long"} : write(d)
    \/ sendMessage \/ suggest \/ autoSuggest \/ acceptSuggestion \/ rejectSuggestion
    \/ \E r \in calls : \/ \E fit \in BOOLEAN : chatAnswered(r, fit)
                        \/ suggestionAnswered(r) \/ refused(r) \/ failed(r)

AiSpec == AiInit /\ [][AiNext]_aiVars

-----------------------------------------------------------------------------
\* The chat waits for an answer exactly when one is pending, so it is never stuck; every
\* answer follows its own question, or begins a chat started after it was asked for; and
\* no question stays without one, whichever page, series or chat is open by then.
AiSound ==
    /\ Cardinality({r \in calls : r.kind = "chat"}) = IF loading THEN 1 ELSE 0
    /\ \A i \in 2..Len(messages) : messages[i].role = "assistant" =>
          messages[i - 1] = Question(messages[i].number)
    /\ \A i \in 1..Len(messages) : messages[i].role = "user" =>
          \/ i < Len(messages) /\ messages[i + 1].role = "assistant"
          \/ i = Len(messages) /\ loading
=============================================================================
