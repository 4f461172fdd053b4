------------------------------ MODULE ChatTurn ------------------------------
(***************************************************************************)
(* Chat sessions and their turns.  A turn is one handler of many separate  *)
(* writes - a question paid for, the question, its answer, what the answer *)
(* rests on, and the trigger of a title - any of which may be the last.    *)
(* Titles are written by a worker of their own queue, or by the handler    *)
(* itself for a demo account.                                              *)
(*                                                                         *)
(* What an answer is made of is the subject of ChatRetrieval, how a demo   *)
(* question is reserved that of DemoQuota; here each is one step.          *)
(***************************************************************************)
EXTENDS Integers, Sequences, FiniteSets

CONSTANTS
    Users, Demo,   \* Demo: those who chat with a demo account
    Sessions,      \* identities for the sessions that get created
    Turns,         \* requests to chat; each is issued once
    DemoQuestions, \* questions a demo account may ask
    Nobody,        \* owner of a session that does not exist yet
    Untitled       \* DEFAULT_SESSION_TITLE

ChatAssumption ==
    /\ Demo \subseteq Users /\ Nobody \notin Users
    /\ Untitled \notin Turns /\ DemoQuestions \in Nat

VARIABLES
    sessions, messages,
    sources,     \* turns whose answer's sources are stored
    unanswered,  \* turns whose question is among the unanswered ones
    spent,       \* questions of each demo account
    calls, jobs, issued,
    untold       \* history: turns whose try at a title has failed

vars == <<sessions, messages, sources, unanswered, spent, calls, jobs, issued, untold>>

\* A title is named by the turn that asked for it.
Row == [owner: Users \cup {Nobody}, title: Turns \cup {Untitled}, deleted: BOOLEAN]

Message == [turn: Turns, role: {"User", "Assistant"}]

\* first: isFirstTurn.  early (history): there was no title when it read the session.
Call == [id: Turns, user: Users, session: Sessions, first: BOOLEAN, early: BOOLEAN,
         kind: {"none", "smallTalk", "answered", "noContext"},
         pc: {"session", "reserve", "question", "answer", "record", "reply",
              "sources", "title"}]

Job == [turn: Turns, session: Sessions, early: BOOLEAN,
        pc: {"session", "messages", "update"}]

Open(s) == sessions[s].owner # Nobody /\ ~sessions[s].deleted

Move(c, c2) == calls' = (calls \ {c}) \cup {c2}
Finish(c) == calls' = calls \ {c}

Init ==
    /\ sessions = [s \in Sessions |->
                     [owner |-> Nobody, title |-> Untitled, deleted |-> FALSE]]
    /\ messages = [s \in Sessions |-> <<>>]
    /\ sources = {} /\ unanswered = {} /\ spent = [u \in Demo |-> 0]
    /\ calls = {} /\ jobs = {} /\ issued = {} /\ untold = {}

-----------------------------------------------------------------------------
(* Sessions *)

CreateSession(u, s) ==
    /\ sessions[s].owner = Nobody
    /\ sessions' = [sessions EXCEPT ![s].owner = u]
    /\ UNCHANGED <<messages, sources, unanswered, spent, calls, jobs, issued, untold>>

\* The messages stay; handlers that have read the session do not notice.
SoftDeleteSession(u, s) ==
    /\ sessions[s].owner = u /\ Open(s)
    /\ sessions' = [sessions EXCEPT ![s].deleted = TRUE]
    /\ UNCHANGED <<messages, sources, unanswered, spent, calls, jobs, issued, untold>>

-----------------------------------------------------------------------------
(* One turn *)

StartTurn(r, u, s) ==
    /\ r \notin issued /\ issued' = issued \cup {r}
    /\ calls' = calls \cup {[id |-> r, user |-> u, session |-> s, first |-> FALSE,
                             early |-> FALSE, kind |-> "none", pc |-> "session"]}
    /\ UNCHANGED <<sessions, messages, sources, unanswered, spent, jobs, untold>>

\* Mutant of IsFirstTurn: whoever asks gets a new title.
IsFirstTurnAlways(s) == TRUE

\* Mutant of IsFirstTurn: the condition is inverted.
IsFirstTurnNegated(s) == sessions[s].title # Untitled

IsFirstTurn(s) == sessions[s].title = Untitled

\* 404 for a session that is gone or someone else's.
ReadSession(c) ==
    /\ c.pc = "session"
    /\ IF Open(c.session) /\ sessions[c.session].owner = c.user
       THEN Move(c, [c EXCEPT !.first = IsFirstTurn(c.session), !.pc = "reserve",
                              !.early = sessions[c.session].title = Untitled])
       ELSE Finish(c)
    /\ UNCHANGED <<sessions, messages, sources, unanswered, spent, jobs, issued, untold>>

Costs(c) == c.user \in Demo

HasQuestionsLeft(u) == spent[u] < DemoQuestions

\* What fails from here on does not give the question back.
ReserveQuestion(c) ==
    /\ c.pc = "reserve"
    /\ IF ~Costs(c) THEN Move(c, [c EXCEPT !.pc = "question"]) /\ UNCHANGED spent
       ELSE IF HasQuestionsLeft(c.user)
       THEN /\ spent' = [spent EXCEPT ![c.user] = @ + 1]
            /\ Move(c, [c EXCEPT !.pc = "question"])
       ELSE Finish(c) /\ UNCHANGED spent
    /\ UNCHANGED <<sessions, messages, sources, unanswered, jobs, issued, untold>>

Said(c, role) ==
    messages' = [messages EXCEPT ![c.session] = Append(@, [turn |-> c.id, role |-> role])]

AddQuestion(c) ==
    /\ c.pc = "question"
    /\ Said(c, "User")
    /\ Move(c, [c EXCEPT !.pc = "answer"])
    /\ UNCHANGED <<sessions, sources, unanswered, spent, jobs, issued, untold>>

Answer(c) ==
    /\ c.pc = "answer"
    /\ \E kind \in {"smallTalk", "answered", "noContext"} :
         Move(c, [c EXCEPT !.kind = kind,
                           !.pc = IF kind = "noContext" THEN "record" ELSE "reply"])
    /\ UNCHANGED <<sessions, messages, sources, unanswered, spent, jobs, issued, untold>>

\* The repository's result is not looked at.
AddUnansweredQuestion(c) ==
    /\ c.pc = "record"
    /\ unanswered' \in {unanswered, unanswered \cup {c.id}}
    /\ Move(c, [c EXCEPT !.pc = "reply"])
    /\ UNCHANGED <<sessions, messages, sources, spent, jobs, issued, untold>>

AddReply(c) ==
    /\ c.pc = "reply"
    /\ Said(c, "Assistant")
    /\ Move(c, [c EXCEPT !.pc = IF c.kind = "answered" THEN "sources" ELSE "title"])
    /\ UNCHANGED <<sessions, sources, unanswered, spent, jobs, issued, untold>>

\* Neither is the result of this one.
AddAnswerSources(c) ==
    /\ c.pc = "sources"
    /\ sources' \in {sources, sources \cup {c.id}}
    /\ Move(c, [c EXCEPT !.pc = "title"])
    /\ UNCHANGED <<sessions, messages, unanswered, spent, jobs, issued, untold>>

NewJob(c) == [turn |-> c.id, session |-> c.session, early |-> c.early,
              pc |-> "session"]

\* Best effort: the answer is saved, whatever becomes of the title.
TriggerTitle(c) ==
    /\ c.pc = "title"
    /\ Finish(c)
    /\ \/ ~c.first /\ UNCHANGED <<sessions, jobs, untold>>
       \/ /\ c.first /\ c.user \in Demo
          /\ sessions' = [sessions EXCEPT ![c.session].title = c.id]
          /\ UNCHANGED <<jobs, untold>>
       \/ /\ c.first /\ c.user \notin Demo
          /\ jobs' = jobs \cup {NewJob(c)}
          /\ UNCHANGED <<sessions, untold>>
       \/ /\ c.first /\ untold' = untold \cup {c.id}
          /\ UNCHANGED <<sessions, jobs>>
    /\ UNCHANGED <<messages, sources, unanswered, spent, issued>>

\* An error on the way, or the end of the process, ends the turn; what it has
\* written stays.  (Before the question is reserved nothing has been written.)
FailTurn(c) ==
    /\ c.pc \in {"question", "answer", "record", "reply", "sources", "title"}
    /\ Finish(c)
    /\ untold' = IF c.first /\ c.pc \in {"sources", "title"} THEN untold \cup {c.id} ELSE untold
    /\ UNCHANGED <<sessions, messages, sources, unanswered, spent, jobs, issued>>

-----------------------------------------------------------------------------
(* The title worker.  A job is queued without attempts and fails for good. *)

MoveJob(j, j2) == jobs' = (jobs \ {j}) \cup {j2}

JobReadSession(j) ==
    /\ j.pc = "session" /\ Open(j.session)
    /\ MoveJob(j, [j EXCEPT !.pc = "messages"])
    /\ UNCHANGED <<sessions, messages, sources, unanswered, spent, calls, issued, untold>>

\* The two oldest are the prompt.
JobReadMessages(j) ==
    /\ j.pc = "messages" /\ messages[j.session] # <<>>
    /\ MoveJob(j, [j EXCEPT !.pc = "update"])
    /\ UNCHANGED <<sessions, messages, sources, unanswered, spent, calls, issued, untold>>

\* generateSessionTitle touches nothing here; updateSessionTitle does not ask
\* whether the session has been deleted or titled since.
UpdateSessionTitle(j) ==
    /\ j.pc = "update"
    /\ sessions' = [sessions EXCEPT ![j.session].title = j.turn]
    /\ jobs' = jobs \ {j}
    /\ UNCHANGED <<messages, sources, unanswered, spent, calls, issued, untold>>

\* A deleted session, no messages, a failing statement or model.
FailJob(j) ==
    /\ jobs' = jobs \ {j} /\ untold' = untold \cup {j.turn}
    /\ UNCHANGED <<sessions, messages, sources, unanswered, spent, calls, issued>>

-----------------------------------------------------------------------------
ChatStep(c) ==
    \/ ReadSession(c) \/ ReserveQuestion(c) \/ AddQuestion(c) \/ Answer(c)
    \/ AddUnansweredQuestion(c) \/ AddReply(c) \/ AddAnswerSources(c)
    \/ TriggerTitle(c) \/ FailTurn(c)

TitleStep(j) ==
    \/ JobReadSession(j) \/ JobReadMessages(j) \/ UpdateSessionTitle(j) \/ FailJob(j)

Next ==
    \/ \E u \in Users, s \in Sessions :
        \/ CreateSession(u, s) \/ SoftDeleteSession(u, s)
        \/ \E r \in Turns : StartTurn(r, u, s)
    \/ \E c \in calls : ChatStep(c)
    \/ \E j \in jobs : TitleStep(j)

Spec == Init /\ [][Next]_vars

-----------------------------------------------------------------------------
TypeOK ==
    /\ sessions \in [Sessions -> Row] /\ messages \in [Sessions -> Seq(Message)]
    /\ sources \subseteq Turns /\ unanswered \subseteq Turns
    /\ spent \in [Demo -> 0 .. DemoQuestions]
    /\ calls \subseteq Call /\ jobs \subseteq Job
    /\ issued \subseteq Turns /\ untold \subseteq Turns

(***************************************************************************)
(* No title is forgotten: while a session has none, each turn that it      *)
(* holds an answer of is still under way, or has a title job under way, or *)
(* has tried and failed itself - vain tries of other turns do not          *)
(* excuse it, however the turns of the session and their jobs cross and    *)
(* wherever a handler stops (chatAsync, GenerationTitleService).           *)
(***************************************************************************)
TitledUnlessFailed ==
    \A s \in Sessions : \A i \in DOMAIN messages[s] :
        LET r == messages[s][i].turn
        IN  messages[s][i].role = "Assistant" =>
              \/ sessions[s].title # Untitled \/ r \in untold
              \/ (\E c \in calls : c.id = r) \/ (\E j \in jobs : j.turn = r)

(***************************************************************************)
(* A session's title is replaced only by a turn that had read the session  *)
(* when there was none: turns that come later leave it alone, the job they *)
(* would have queued included (checkIdResult.value.title).                 *)
(***************************************************************************)
TitleSettles ==
    [][\A s \in Sessions :
        sessions[s].title # Untitled /\ sessions'[s].title # sessions[s].title =>
            \E t \in (calls \ calls') \cup (jobs \ jobs') : t.session = s /\ t.early]_vars
=============================================================================
