----------------------------- MODULE Assistant -----------------------------
(***************************************************************************)
(* The assistant chat: sessions with their messages and runs               *)
(* (repositories/assistant_sessions.py), and the requests that ask, select *)
(* a skill, call its read-only tools, call the language model and store    *)
(* the answer (services/assistant_chat_service.py).                        *)
(*                                                                         *)
(* Requests share one event loop.  A plain reply runs from the question to *)
(* its first tool, and from the model's answer to its end, without an      *)
(* await; a stream is suspended at a yield there, and is cancelled when    *)
(* its client disconnects.  Connections are in autocommit mode: an error   *)
(* of the database (a lock held too long) separates two statements.        *)
(***************************************************************************)
EXTENDS Naturals, Sequences

CONSTANTS
    Chat,    \* the requests
    Session  \* the session ids a client or the server may use

ASSUME AssistantAssumption == Session # {}

VARIABLES
    session,     \* the status of a session row, "none" before and "deleted" after
    transcript,  \* the requests whose question, answer and run a session holds
    turn,        \* the state of a request
    torn         \* sessions whose archiving an error cut short

vars == <<session, transcript, turn, torn>>

Skills == {"job_diagnostician", "system_diagnostician", "channel_config_advisor",
           "angemedia_faq"}

\* allowed_tools of the skill files.
AllowedTools(skill) ==
    {"local_knowledge_base"} \cup
    CASE skill = "job_diagnostician" -> {"job_safe_summary", "failure_diagnostic"}
      [] skill = "system_diagnostician" ->
             {"diagnostics_summary", "queue_status", "recent_logs"}
      [] skill = "channel_config_advisor" ->
             {"channel_safe_summary", "catalog_model_capabilities",
              "provider_connection_test", "network_probe"}
      [] skill = "angemedia_faq" -> {}

\* AssistantToolRegistry.
Registered == UNION {AllowedTools(skill) : skill \in Skills}

\* What the planner looks for in a message; the terms for the queue and for the
\* logs are terms for the system too.
Terms == {"job_id", "job", "system", "queue", "log", "provider", "model",
          "channel", "connection"}
Messages == {t \in SUBSET Terms : t \cap {"queue", "log"} # {} => "system" \in t}

Pcs == {"new", "guard", "tools", "llm", "answer", "done", "failed", "gone"}
MaxTools == 4
NoTurn == [pc |-> "new"]
InFlight(c) == turn[c].pc \in {"guard", "tools", "llm", "answer"}
Empty == [user |-> {}, answer |-> {}, run |-> {}]

\* Sessions, transcripts and requests are well formed, and what is left of a
\* request's plan is at most four tools, each allowed by the skill the message
\* selected and registered: the executor never refuses what the planner asks.
AssistantTypeOK ==
    /\ session \in [Session -> {"none", "active", "archived", "deleted"}]
    /\ transcript \in [Session -> [user: SUBSET Chat, answer: SUBSET Chat, run: SUBSET Chat]]
    /\ torn \subseteq Session
    /\ \A c \in Chat :
          /\ turn[c].pc \in Pcs
          /\ InFlight(c) => /\ turn[c].session \in Session
                            /\ turn[c].stream \in BOOLEAN
                            /\ turn[c].skill \in Skills
                            /\ Len(turn[c].calls) <= MaxTools
                            /\ \A i \in DOMAIN turn[c].calls :
                                  turn[c].calls[i] \in AllowedTools(turn[c].skill) \cap Registered

AssistantInit ==
    /\ session = [s \in Session |-> "none"]
    /\ transcript = [s \in Session |-> Empty]
    /\ turn = [c \in Chat |-> NoTurn]
    /\ torn = {}

-----------------------------------------------------------------------------
(* Skills and tools *)

SelectSkill(terms) ==
    CASE "job_id" \in terms -> "job_diagnostician"
      [] "job_id" \notin terms /\ "system" \in terms -> "system_diagnostician"
      [] terms \cap {"job_id", "system"} = {} /\ terms \cap {"provider", "model", "channel"} # {}
            -> "channel_config_advisor"
      [] terms \cap {"job_id", "system", "provider", "model", "channel"} = {} /\ "job" \in terms
            -> "job_diagnostician"
      [] OTHER -> "angemedia_faq"

If(condition, calls) == IF condition THEN calls ELSE <<>>
KnowledgeBase == <<"local_knowledge_base">>
Connection(terms) ==
    If({"provider", "connection"} \subseteq terms,
       <<"provider_connection_test", "network_probe">>)

\* Mutant: the connection is probed whatever the skill.
PlanToolsProbing(skill, terms) ==
    Connection(terms) \o KnowledgeBase

\* plan_assistant_tools.
PlanTools(skill, terms) ==
    LET channel == <<"channel_safe_summary">>
                   \o If("model" \in terms, <<"catalog_model_capabilities">>)
                   \o Connection(terms)
        calls == CASE skill = "job_diagnostician" ->
                          If("job_id" \in terms, <<"job_safe_summary", "failure_diagnostic">>)
                          \o KnowledgeBase
                   [] skill = "system_diagnostician" ->
                          <<"diagnostics_summary">> \o If("queue" \in terms, <<"queue_status">>)
                          \o If("log" \in terms, <<"recent_logs">>) \o KnowledgeBase
                   [] skill = "channel_config_advisor" ->
                          channel \o If(Len(channel) < MaxTools, KnowledgeBase)
                   [] skill = "angemedia_faq" -> KnowledgeBase
    IN  IF Len(calls) > MaxTools THEN SubSeq(calls, 1, MaxTools) ELSE calls

-----------------------------------------------------------------------------
(* A request *)

\* A reply before its first tool, or with its answer, does not let go of the loop.
Holds(c) == InFlight(c) /\ ~turn[c].stream /\ turn[c].pc \in {"guard", "answer"}
LoopFree(c) == \A d \in Chat \ {c} : ~Holds(d)

Go(c, pc) == turn' = [turn EXCEPT ![c].pc = pc]
Leave(c, pc) == turn' = [turn EXCEPT ![c] = [pc |-> pc]]

\* The session a request uses: the one it names while that is active, else a
\* new one (Session is the bound).
SessionFor(named) ==
    IF session[named] = "active" THEN {named} ELSE {s \in Session : session[s] = "none"}

\* get_assistant_session, create_assistant_session, add_assistant_message.
Ask(c, named, stream) ==
    /\ turn[c] = NoTurn /\ LoopFree(c)
    /\ \E s \in SessionFor(named) :
          /\ session' = [session EXCEPT ![s] = "active"]
          /\ \/ /\ transcript' = [transcript EXCEPT ![s].user = @ \cup {c}]
                /\ turn' = [turn EXCEPT ![c] = [pc |-> "guard", session |-> s, stream |-> stream,
                                                skill |-> "angemedia_faq", calls |-> <<>>]]
             \/ UNCHANGED transcript /\ Leave(c, "failed")
    /\ UNCHANGED torn

\* A greeting, or a message out of scope, is answered at once.
Guard(c) ==
    /\ turn[c].pc = "guard" /\ LoopFree(c)
    /\ Go(c, "answer")
    /\ UNCHANGED <<session, transcript, torn>>

\* prepare_assistant_context_async: the skill and its calls; the skill's file
\* may be missing.
Prepare(c) ==
    /\ turn[c].pc = "guard" /\ LoopFree(c)
    /\ \/ \E terms \in Messages :
             LET skill == SelectSkill(terms)
             IN  turn' = [turn EXCEPT ![c].pc = "tools", ![c].skill = skill,
                                      ![c].calls = PlanTools(skill, terms)]
       \/ Leave(c, "failed")
    /\ UNCHANGED <<session, transcript, torn>>

\* execute_async: a tool reads and changes nothing, its errors become a result.
Execute(c) ==
    /\ turn[c].pc = "tools" /\ turn[c].calls # <<>> /\ LoopFree(c)
    /\ turn' = [turn EXCEPT ![c].calls = Tail(@)]
    /\ UNCHANGED <<session, transcript, torn>>

\* The model is called, or the answer is made of the results of the tools.
Synthesise(c) ==
    /\ turn[c].pc = "tools" /\ turn[c].calls = <<>> /\ LoopFree(c)
    /\ \E pc \in {"llm", "answer"} : Go(c, pc)
    /\ UNCHANGED <<session, transcript, torn>>

\* The model answers, breaks off or fails: every way there is an answer.
LlmEnds(c) ==
    /\ turn[c].pc = "llm" /\ LoopFree(c)
    /\ Go(c, "answer")
    /\ UNCHANGED <<session, transcript, torn>>

\* add_assistant_message and add_assistant_run; either may fail.
Store(c) ==
    /\ turn[c].pc = "answer" /\ LoopFree(c)
    /\ LET s == turn[c].session
       IN  \/ /\ transcript' = [transcript EXCEPT ![s].answer = @ \cup {c}, ![s].run = @ \cup {c}]
              /\ Leave(c, "done")
           \/ /\ transcript' = [transcript EXCEPT ![s].answer = @ \cup {c}]
              /\ Leave(c, "failed")
           \/ UNCHANGED transcript /\ Leave(c, "failed")
    /\ UNCHANGED <<session, torn>>

\* The client of a stream goes away: the generator is cancelled.
Disconnect(c) ==
    /\ InFlight(c) /\ turn[c].stream /\ LoopFree(c)
    /\ Leave(c, "gone")
    /\ UNCHANGED <<session, transcript, torn>>

ChatStep(c) ==
    \/ \E s \in Session, stream \in BOOLEAN : Ask(c, s, stream)
    \/ Guard(c) \/ Prepare(c) \/ Execute(c) \/ Synthesise(c) \/ LlmEnds(c) \/ Store(c)
    \/ Disconnect(c)

-----------------------------------------------------------------------------
(* Archiving, retention, crashes *)

AllFree == \A c \in Chat : ~Holds(c)

\* Mutant: the messages and runs are removed and the session stays active.
ArchiveStaysActive(s) ==
    /\ session[s] \in {"active", "archived"} /\ AllFree
    /\ transcript' = [transcript EXCEPT ![s] = Empty]
    /\ UNCHANGED <<session, turn, torn>>

\* delete_assistant_session: three statements, of which the last ones may fail.
Archive(s) ==
    /\ session[s] \in {"active", "archived"} /\ AllFree
    /\ \/ /\ transcript' = [transcript EXCEPT ![s] = Empty]
          /\ session' = [session EXCEPT ![s] = "archived"]
          /\ torn' = torn \ {s}
       \/ /\ transcript' = [transcript EXCEPT ![s].user = {}, ![s].answer = {}]
          /\ torn' = torn \cup {s}
          /\ UNCHANGED session
       \/ /\ transcript' = [transcript EXCEPT ![s] = Empty]
          /\ torn' = torn \cup {s}
          /\ UNCHANGED session
    /\ UNCHANGED turn

\* retention_cleanup, in one transaction: sessions untouched for at least a day,
\* which no request still in flight has.
RetentionCleanup(s) ==
    /\ session[s] \in {"active", "archived"} /\ AllFree
    /\ \A c \in Chat : InFlight(c) => turn[c].session # s
    /\ session' = [session EXCEPT ![s] = "deleted"]
    /\ transcript' = [transcript EXCEPT ![s] = Empty]
    /\ UNCHANGED <<turn, torn>>

\* The API dies and comes back: the requests in flight are lost.
Crash ==
    /\ turn' = [c \in Chat |-> IF InFlight(c) THEN [pc |-> "gone"] ELSE turn[c]]
    /\ UNCHANGED <<session, transcript, torn>>

AssistantNext ==
    \/ \E c \in Chat : ChatStep(c)
    \/ \E s \in Session : Archive(s) \/ RetentionCleanup(s)
    \/ Crash

AssistantSpec == AssistantInit /\ [][AssistantNext]_vars

-----------------------------------------------------------------------------
(* Properties *)

\* Unless an error cut its archiving short, an active session shows no answer
\* without its question and keeps no run without its answer; and an archived
\* session keeps no question, though an answer that was under way when it was
\* archived is still stored.
TranscriptWhole ==
    \A s \in Session \ torn :
       /\ session[s] = "active" => /\ transcript[s].run \subseteq transcript[s].answer
                                   /\ transcript[s].answer \subseteq transcript[s].user
       /\ session[s] = "archived" => transcript[s].user = {}
=============================================================================
