-------------------------- MODULE AssistantProofs --------------------------
(***************************************************************************)
(* An active session whose archiving was not cut short has no answer       *)
(* without its question and no run without its answer, for any number of   *)
(* requests and sessions.                                                  *)
(*                                                                         *)
(* TranscriptWhole is not inductive: storing an answer keeps it only       *)
(* because the question of a request in flight is still there.  ChatInv    *)
(* adds that, with the shape of the state and the emptiness of a session   *)
(* nobody has opened yet.                                                  *)
(***************************************************************************)
EXTENDS Assistant, TLAPS

InFlightPcs == {"guard", "tools", "llm", "answer"}
EndedTurns == [pc: {"new", "done", "failed", "gone"}]
Tools == {"local_knowledge_base", "job_safe_summary", "failure_diagnostic",
          "diagnostics_summary", "queue_status", "recent_logs", "channel_safe_summary",
          "catalog_model_capabilities", "provider_connection_test", "network_probe"}
LiveTurns == [pc: InFlightPcs, session: Session, stream: BOOLEAN, skill: Skills,
              calls: Seq(Tools)]

Shape ==
    /\ session \in [Session -> {"none", "active", "archived", "deleted"}]
    /\ transcript \in [Session -> [user: SUBSET Chat, answer: SUBSET Chat, run: SUBSET Chat]]
    /\ turn \in [Chat -> EndedTurns \cup LiveTurns]

\* The session of a request in flight exists, and holds its question unless it
\* was archived or torn.
QuestionKept ==
    \A c \in Chat : InFlight(c) =>
        /\ session[turn[c].session] \in {"active", "archived"}
        /\ session[turn[c].session] = "active" /\ turn[c].session \notin torn
             => c \in transcript[turn[c].session].user

\* A session nobody has opened holds nothing.
UnopenedIsEmpty == \A s \in Session : session[s] = "none" => transcript[s] = Empty

ChatInv == Shape /\ QuestionKept /\ UnopenedIsEmpty /\ TranscriptWhole

-----------------------------------------------------------------------------
(* The calls of a request *)

\* Sequences of tools are built from short ones,
LEMMA One ==
    ASSUME NEW S, NEW a \in S
    PROVE  <<a>> \in Seq(S)
OBVIOUS

\* of one or two calls,
LEMMA Two ==
    ASSUME NEW S, NEW a \in S, NEW b \in S
    PROVE  <<a, b>> \in Seq(S)
OBVIOUS

\* that depend on a term of the message,
LEMMA IfSeq ==
    ASSUME NEW S, NEW q \in Seq(S), NEW condition
    PROVE  If(condition, q) \in Seq(S)
<1>1. <<>> \in Seq(S)
  OBVIOUS
<1>2. QED
  BY <1>1 DEF If

\* put one after the other,
LEMMA Conc ==
    ASSUME NEW S, NEW q \in Seq(S), NEW r \in Seq(S)
    PROVE  q \o r \in Seq(S)
OBVIOUS

\* and cut to the four the executor takes.
LEMMA Cut ==
    ASSUME NEW S, NEW q \in Seq(S)
    PROVE  LET cut == IF Len(q) > MaxTools THEN SubSeq(q, 1, MaxTools) ELSE q
           IN  cut \in Seq(S) /\ Len(cut) <= MaxTools
BY DEF MaxTools

\* What plan_assistant_tools returns are at most four tools the skill allows.
LEMMA PlanAllowed ==
    ASSUME NEW skill \in Skills, NEW terms, NEW S, AllowedTools(skill) \subseteq S
    PROVE  PlanTools(skill, terms) \in Seq(S) /\ Len(PlanTools(skill, terms)) <= MaxTools
<1>1. KnowledgeBase \in Seq(S)
  <2>1. "local_knowledge_base" \in S
    BY DEF AllowedTools
  <2> QED
    BY <2>1, One DEF KnowledgeBase
<1>2. CASE skill = "angemedia_faq"
  BY <1>1, <1>2, Cut DEF PlanTools
<1>3. CASE skill = "job_diagnostician"
  <2>1. "job_safe_summary" \in S /\ "failure_diagnostic" \in S
    BY <1>3 DEF AllowedTools
  <2>2. <<"job_safe_summary", "failure_diagnostic">> \in Seq(S)
    BY <2>1, Two
  <2>3. If("job_id" \in terms, <<"job_safe_summary", "failure_diagnostic">>) \o KnowledgeBase
        \in Seq(S)
    BY <1>1, <2>2, IfSeq, Conc
  <2> QED
    BY <1>3, <2>3, Cut DEF PlanTools
<1>4. CASE skill = "system_diagnostician"
  <2>1. "diagnostics_summary" \in S /\ "queue_status" \in S /\ "recent_logs" \in S
    BY <1>4 DEF AllowedTools
  <2>2. /\ <<"diagnostics_summary">> \in Seq(S)
        /\ <<"queue_status">> \in Seq(S)
        /\ <<"recent_logs">> \in Seq(S)
    BY <2>1, One
  <2>3. <<"diagnostics_summary">> \o If("queue" \in terms, <<"queue_status">>)
          \o If("log" \in terms, <<"recent_logs">>) \o KnowledgeBase \in Seq(S)
    BY <1>1, <2>2, IfSeq, Conc
  <2> QED
    BY <1>4, <2>3, Cut DEF PlanTools
<1>5. CASE skill = "channel_config_advisor"
  <2> DEFINE ch == <<"channel_safe_summary">>
                   \o If("model" \in terms, <<"catalog_model_capabilities">>)
                   \o Connection(terms)
  <2>1. /\ "channel_safe_summary" \in S /\ "catalog_model_capabilities" \in S
        /\ "provider_connection_test" \in S /\ "network_probe" \in S
    BY <1>5 DEF AllowedTools
  <2>2. /\ <<"channel_safe_summary">> \in Seq(S)
        /\ <<"catalog_model_capabilities">> \in Seq(S)
        /\ <<"provider_connection_test", "network_probe">> \in Seq(S)
    BY <2>1, One, Two
  <2>3. Connection(terms) \in Seq(S)
    BY <2>2, IfSeq DEF Connection
  <2>4. ch \in Seq(S)
    BY <2>2, <2>3, IfSeq, Conc
  <2>5. ch \o If(Len(ch) < MaxTools, KnowledgeBase) \in Seq(S)
    BY <1>1, <2>4, IfSeq, Conc
  <2> QED
    BY <1>5, <2>5, Cut DEF PlanTools
<1> QED
  BY <1>2, <1>3, <1>4, <1>5 DEF Skills

\* A skill allows registered tools only.
LEMMA AllowedAreTools ==
    ASSUME NEW skill \in Skills
    PROVE  AllowedTools(skill) \subseteq Tools /\ AllowedTools(skill) \subseteq Registered
<1>1. AllowedTools(skill) \subseteq Registered
  BY DEF Registered
<1>2. AllowedTools(skill) \subseteq Tools
  BY DEF Skills, AllowedTools, Tools
<1> QED
  BY <1>1, <1>2

\* Every plan is a sequence of tools.
LEMMA PlanShape ==
    ASSUME NEW skill \in Skills, NEW terms
    PROVE  PlanTools(skill, terms) \in Seq(Tools)
  BY AllowedAreTools, PlanAllowed

-----------------------------------------------------------------------------
(* The requests *)

\* A request in flight has a record with a session.
LEMMA LiveShape ==
    ASSUME Shape, NEW c \in Chat, InFlight(c)
    PROVE  turn[c] \in LiveTurns /\ turn[c].session \in Session
<1>1. turn[c] \in EndedTurns \cup LiveTurns
  BY DEF Shape
<1>2. turn[c] \notin EndedTurns
  BY DEF InFlight, EndedTurns
<1>3. QED
  BY <1>1, <1>2 DEF LiveTurns

\* The invariant concerns of the requests only which ones are in flight, and in
\* which session: a step of one request that leaves the tables alone keeps it.
LEMMA QuietStep ==
    ASSUME ChatInv, NEW c \in Chat, NEW t,
           turn' = [turn EXCEPT ![c] = t],
           UNCHANGED <<session, transcript, torn>>,
           \/ t \in EndedTurns
           \/ InFlight(c) /\ t \in LiveTurns /\ t.session = turn[c].session
    PROVE  ChatInv'
<1>0. turn \in [Chat -> EndedTurns \cup LiveTurns]
  BY DEF ChatInv, Shape
<1>a. turn'[c] = t /\ \A d \in Chat \ {c} : turn'[d] = turn[d]
  BY <1>0
<1>b. turn' \in [Chat -> EndedTurns \cup LiveTurns]
  BY <1>0
<1>1. Shape'
  BY <1>b DEF ChatInv, Shape
<1>2. QuestionKept'
  <2> SUFFICES ASSUME NEW d \in Chat, InFlight(d)'
               PROVE  /\ session[turn'[d].session] \in {"active", "archived"}
                      /\ session[turn'[d].session] = "active" /\ turn'[d].session \notin torn
                           => d \in transcript[turn'[d].session].user
    BY DEF QuestionKept
  <2>1. CASE d # c
    <3>1. turn'[d] = turn[d] /\ InFlight(d)
      BY <1>a, <2>1 DEF InFlight
    <3>2. QED
      BY <3>1 DEF ChatInv, QuestionKept
  <2>2. CASE d = c
    <3>1. t.pc \in {"guard", "tools", "llm", "answer"}
      BY <1>a, <2>2 DEF InFlight
    <3>2. t \notin EndedTurns
      BY <3>1 DEF EndedTurns
    <3>3. InFlight(c) /\ turn'[c].session = turn[c].session
      BY <1>a, <3>2
    <3>4. QED
      BY <2>2, <3>3 DEF ChatInv, QuestionKept
  <2>3. QED
    BY <2>1, <2>2
<1>3. UnopenedIsEmpty' /\ TranscriptWhole'
  BY DEF ChatInv, UnopenedIsEmpty, TranscriptWhole, Empty
<1>4. QED
  BY <1>1, <1>2, <1>3 DEF ChatInv

\* Going on keeps the session of a request.
LEMMA LiveGoes ==
    ASSUME NEW t \in LiveTurns, NEW pc \in InFlightPcs
    PROVE  [t EXCEPT !.pc = pc] \in LiveTurns /\ [t EXCEPT !.pc = pc].session = t.session
BY DEF LiveTurns

\* Guard, Prepare, Execute, Synthesise, LlmEnds and Disconnect.
LEMMA QuietActions ==
    ASSUME ChatInv, NEW c \in Chat,
           \/ Guard(c) \/ Prepare(c) \/ Execute(c) \/ Synthesise(c) \/ LlmEnds(c)
           \/ Disconnect(c)
    PROVE  ChatInv'
<1>1. InFlight(c)
  BY DEF Guard, Prepare, Execute, Synthesise, LlmEnds, Disconnect, InFlight
<1>2. turn[c] \in LiveTurns
  BY <1>1, LiveShape DEF ChatInv
<1>3. UNCHANGED <<session, transcript, torn>>
  BY DEF Guard, Prepare, Execute, Synthesise, LlmEnds, Disconnect
<1>4. ASSUME NEW pc \in InFlightPcs, Go(c, pc)
      PROVE  ChatInv'
  <2>1. turn' = [turn EXCEPT ![c] = [turn[c] EXCEPT !.pc = pc]]
    BY <1>4 DEF Go
  <2>2. /\ [turn[c] EXCEPT !.pc = pc] \in LiveTurns
        /\ [turn[c] EXCEPT !.pc = pc].session = turn[c].session
    BY <1>2, LiveGoes
  <2>3. QED
    BY <1>1, <1>3, <2>1, <2>2, QuietStep
<1>5. ASSUME NEW pc \in {"failed", "gone"}, Leave(c, pc)
      PROVE  ChatInv'
  <2>1. [pc |-> pc] \in EndedTurns
    BY DEF EndedTurns
  <2>2. QED
    BY <1>3, <1>5, <2>1, QuietStep DEF Leave
<1>6. CASE Guard(c) \/ Synthesise(c) \/ LlmEnds(c)
  BY <1>4, <1>6 DEF Guard, Synthesise, LlmEnds, InFlightPcs
<1>7. CASE Disconnect(c)
  BY <1>5, <1>7 DEF Disconnect
<1>8. CASE Execute(c)
  <2> DEFINE t == [turn[c] EXCEPT !.calls = Tail(turn[c].calls)]
  <2>1. turn' = [turn EXCEPT ![c] = t]
    BY <1>8 DEF Execute
  <2>2. turn[c].calls \in Seq(Tools) /\ turn[c].calls # <<>>
    BY <1>2, <1>8 DEF Execute, LiveTurns
  <2>3. Tail(turn[c].calls) \in Seq(Tools)
    BY <2>2
  <2>4. t \in LiveTurns /\ t.session = turn[c].session
    BY <1>2, <2>3 DEF LiveTurns
  <2> HIDE DEF t
  <2>5. QED
    BY <1>1, <1>3, <2>1, <2>4, QuietStep
<1>9. CASE Prepare(c)
  <2>1. CASE Leave(c, "failed")
    BY <1>5, <2>1
  <2>2. ASSUME NEW skill \in Skills, NEW calls \in Seq(Tools),
               turn' = [turn EXCEPT ![c].pc = "tools", ![c].skill = skill, ![c].calls = calls]
        PROVE  ChatInv'
    <3> DEFINE t == [turn[c] EXCEPT !.pc = "tools", !.skill = skill, !.calls = calls]
    <3>1. turn' = [turn EXCEPT ![c] = t]
      BY <2>2 DEF ChatInv, Shape
    <3>2. t \in LiveTurns /\ t.session = turn[c].session
      BY <1>2 DEF LiveTurns, InFlightPcs
    <3> HIDE DEF t
    <3>3. QED
      BY <1>1, <1>3, <3>1, <3>2, QuietStep
  <2>3. ASSUME NEW terms
        PROVE  /\ SelectSkill(terms) \in Skills
               /\ PlanTools(SelectSkill(terms), terms) \in Seq(Tools)
    <3>1. SelectSkill(terms) \in Skills
      BY DEF SelectSkill, Skills
    <3>2. QED
      BY <3>1, PlanShape
  <2>4. QED
    BY <1>9, <2>1, <2>2, <2>3 DEF Prepare
<1>10. QED
  BY <1>6, <1>7, <1>8, <1>9

\* A question is asked in an active session, or in one that is opened for it.
LEMMA AskKeeps ==
    ASSUME ChatInv, NEW c \in Chat, NEW named \in Session, NEW stream \in BOOLEAN,
           Ask(c, named, stream)
    PROVE  ChatInv'
<1>1. PICK s \in SessionFor(named) :
         /\ session' = [session EXCEPT ![s] = "active"]
         /\ \/ /\ transcript' = [transcript EXCEPT ![s].user = @ \cup {c}]
               /\ turn' = [turn EXCEPT ![c] = [pc |-> "guard", session |-> s, stream |-> stream,
                                               skill |-> "angemedia_faq", calls |-> <<>>]]
            \/ UNCHANGED transcript /\ Leave(c, "failed")
  BY DEF Ask
<1>2. torn' = torn /\ s \in Session
  BY DEF Ask, SessionFor
<1>3. session[s] = "active" \/ transcript[s] = Empty
  BY <1>2 DEF SessionFor, ChatInv, UnopenedIsEmpty
<1>4. /\ session' \in [Session -> {"none", "active", "archived", "deleted"}]
      /\ \A r \in Session : session'[r] = IF r = s THEN "active" ELSE session[r]
  BY <1>1, <1>2 DEF ChatInv, Shape
<1>5. /\ transcript' \in [Session -> [user: SUBSET Chat, answer: SUBSET Chat, run: SUBSET Chat]]
      /\ \A r \in Session : /\ transcript'[r].answer = transcript[r].answer
                            /\ transcript'[r].run = transcript[r].run
                            /\ transcript[r].user \subseteq transcript'[r].user
                            /\ r # s => transcript'[r] = transcript[r]
  <2>1. transcript \in [Session -> [user: SUBSET Chat, answer: SUBSET Chat, run: SUBSET Chat]]
    BY DEF ChatInv, Shape
  <2>2. CASE transcript' = [transcript EXCEPT ![s].user = @ \cup {c}]
    BY <1>2, <2>1, <2>2
  <2>3. CASE transcript' = transcript
    BY <2>1, <2>3
  <2>4. QED
    BY <1>1, <2>2, <2>3
<1>6. \A d \in Chat \ {c} : turn'[d] = turn[d]
  BY <1>1 DEF ChatInv, Shape, Leave
<1>7. \/ turn'[c] \in EndedTurns
      \/ turn'[c] \in LiveTurns /\ turn'[c].session = s /\ c \in transcript'[s].user
  <2>1. CASE Leave(c, "failed")
    BY <2>1 DEF ChatInv, Shape, Leave, EndedTurns
  <2>2. CASE /\ transcript' = [transcript EXCEPT ![s].user = @ \cup {c}]
             /\ turn' = [turn EXCEPT ![c] = [pc |-> "guard", session |-> s, stream |-> stream,
                                             skill |-> "angemedia_faq", calls |-> <<>>]]
    <3> DEFINE t == [pc |-> "guard", session |-> s, stream |-> stream,
                     skill |-> "angemedia_faq", calls |-> <<>>]
    <3>1. <<>> \in Seq(Tools)
      OBVIOUS
    <3>2. t \in LiveTurns /\ t.session = s
      BY <1>2, <3>1 DEF LiveTurns, InFlightPcs, Skills
    <3>3. turn'[c] = t
      BY <2>2 DEF ChatInv, Shape
    <3>4. c \in transcript'[s].user
      BY <1>2, <2>2 DEF ChatInv, Shape
    <3> HIDE DEF t
    <3>5. QED
      BY <3>2, <3>3, <3>4
  <2>3. QED
    BY <1>1, <2>1, <2>2
<1>8. turn' = [d \in Chat |-> turn'[d]]
  BY <1>1 DEF ChatInv, Shape, Leave
<1>9. Shape'
  BY <1>4, <1>5, <1>6, <1>7, <1>8 DEF ChatInv, Shape
<1>10. QuestionKept'
  <2> SUFFICES ASSUME NEW d \in Chat, InFlight(d)'
               PROVE  /\ session'[turn'[d].session] \in {"active", "archived"}
                      /\ session'[turn'[d].session] = "active" /\ turn'[d].session \notin torn'
                           => d \in transcript'[turn'[d].session].user
    BY DEF QuestionKept
  <2>1. CASE d # c
    <3>1. InFlight(d) /\ turn'[d] = turn[d]
      BY <1>6, <2>1 DEF InFlight
    <3>2. turn[d].session \in Session
      BY <3>1, LiveShape DEF ChatInv
    <3>3. session[s] # "archived"
      BY <1>2 DEF SessionFor
    <3>4. turn[d].session = s => session[s] = "active"
      BY <3>1, <3>3 DEF ChatInv, QuestionKept
    <3>5. QED
      BY <1>2, <1>4, <1>5, <3>1, <3>2, <3>4 DEF ChatInv, QuestionKept
  <2>2. CASE d = c
    BY <1>2, <1>4, <1>7, <2>2 DEF InFlight, EndedTurns
  <2>3. QED
    BY <2>1, <2>2
<1>11. UnopenedIsEmpty'
  BY <1>4, <1>5 DEF ChatInv, UnopenedIsEmpty, Empty
<1>12. TranscriptWhole'
  <2> SUFFICES ASSUME NEW r \in Session \ torn'
               PROVE  /\ session'[r] = "active" => /\ transcript'[r].run \subseteq transcript'[r].answer
                                                   /\ transcript'[r].answer \subseteq transcript'[r].user
                      /\ session'[r] = "archived" => transcript'[r].user = {}
    BY DEF TranscriptWhole
  <2>1. CASE r # s
    BY <1>2, <1>4, <1>5, <2>1 DEF ChatInv, TranscriptWhole
  <2>2. CASE r = s /\ session[s] = "active"
    BY <1>2, <1>4, <1>5, <2>2 DEF ChatInv, TranscriptWhole
  <2>3. CASE r = s /\ transcript[s] = Empty
    BY <1>2, <1>4, <1>5, <2>3 DEF Empty
  <2>4. QED
    BY <1>3, <2>1, <2>2, <2>3
<1>13. QED
  BY <1>9, <1>10, <1>11, <1>12 DEF ChatInv

\* The answer, and its run, of a request whose question is kept.
LEMMA StoreKeeps ==
    ASSUME ChatInv, NEW c \in Chat, Store(c)
    PROVE  ChatInv'
<1> DEFINE s == turn[c].session
<1>1. InFlight(c)
  BY DEF Store, InFlight
<1>2. s \in Session /\ turn[c] \in LiveTurns
  BY <1>1, LiveShape DEF ChatInv
<1>3. /\ session[s] \in {"active", "archived"}
      /\ session[s] = "active" /\ s \notin torn => c \in transcript[s].user
  BY <1>1 DEF ChatInv, QuestionKept
<1> HIDE DEF s
<1>4. session' = session /\ torn' = torn
  BY DEF Store
<1>5. \E pc \in {"done", "failed"} : turn' = [turn EXCEPT ![c] = [pc |-> pc]]
  BY DEF Store, Leave
<1>6. /\ transcript' \in [Session -> [user: SUBSET Chat, answer: SUBSET Chat, run: SUBSET Chat]]
      /\ \A r \in Session : /\ transcript'[r].user = transcript[r].user
                            /\ r # s => transcript'[r] = transcript[r]
      /\ transcript'[s].answer \subseteq transcript[s].answer \cup {c}
      /\ transcript[s].run \subseteq transcript[s].answer
           => transcript'[s].run \subseteq transcript'[s].answer
  BY <1>2 DEF Store, ChatInv, Shape, s
<1>7. Shape'
  BY <1>4, <1>5, <1>6 DEF ChatInv, Shape, EndedTurns
<1>8. QuestionKept'
  <2> SUFFICES ASSUME NEW d \in Chat, InFlight(d)'
               PROVE  /\ session[turn'[d].session] \in {"active", "archived"}
                      /\ session[turn'[d].session] = "active" /\ turn'[d].session \notin torn
                           => d \in transcript'[turn'[d].session].user
    BY <1>4 DEF QuestionKept
  <2>1. d # c
    BY <1>5 DEF InFlight, ChatInv, Shape
  <2>2. turn'[d] = turn[d] /\ InFlight(d)
    BY <1>5, <2>1 DEF InFlight, ChatInv, Shape
  <2>3. turn[d].session \in Session
    BY <2>2, LiveShape DEF ChatInv
  <2>4. QED
    BY <1>6, <2>2, <2>3 DEF ChatInv, QuestionKept
<1>9. UnopenedIsEmpty'
  BY <1>3, <1>4, <1>6 DEF ChatInv, UnopenedIsEmpty, Empty
<1>10. TranscriptWhole'
  <2> SUFFICES ASSUME NEW r \in Session \ torn
               PROVE  /\ session[r] = "active" => /\ transcript'[r].run \subseteq transcript'[r].answer
                                                  /\ transcript'[r].answer \subseteq transcript'[r].user
                      /\ session[r] = "archived" => transcript'[r].user = {}
    BY <1>4 DEF TranscriptWhole
  <2>1. CASE r # s
    BY <1>6, <2>1 DEF ChatInv, TranscriptWhole
  <2>2. CASE r = s
    BY <1>3, <1>6, <2>2 DEF ChatInv, TranscriptWhole
  <2>3. QED
    BY <2>1, <2>2
<1>11. QED
  BY <1>7, <1>8, <1>9, <1>10 DEF ChatInv

\* Archiving and retention; neither ends a request.
LEMMA TablesKeep ==
    ASSUME ChatInv, NEW s \in Session, Archive(s) \/ RetentionCleanup(s)
    PROVE  ChatInv'
<1>1. turn' = turn
  BY DEF Archive, RetentionCleanup
<1>2. /\ \A r \in Session : r # s => session'[r] = session[r] /\ transcript'[r] = transcript[r]
      /\ session' \in [Session -> {"none", "active", "archived", "deleted"}]
      /\ transcript' \in [Session -> [user: SUBSET Chat, answer: SUBSET Chat, run: SUBSET Chat]]
      /\ \A r \in Session : r # s => (r \in torn' <=> r \in torn)
  BY DEF Archive, RetentionCleanup, ChatInv, Shape, Empty
<1>3. /\ session[s] \in {"active", "archived"}
      /\ session'[s] # "none"
      /\ s \notin torn' => session'[s] # "active"
      /\ session'[s] = "archived" => s \in torn' \/ transcript'[s].user = {}
  BY DEF Archive, RetentionCleanup, ChatInv, Shape, Empty
<1>4. \A d \in Chat : InFlight(d) /\ turn[d].session = s => session'[s] \in {"active", "archived"}
  BY DEF Archive, RetentionCleanup, ChatInv, Shape
<1>5. Shape'
  BY <1>1, <1>2 DEF ChatInv, Shape
<1>6. QuestionKept'
  <2> SUFFICES ASSUME NEW d \in Chat, InFlight(d)
               PROVE  /\ session'[turn[d].session] \in {"active", "archived"}
                      /\ session'[turn[d].session] = "active" /\ turn[d].session \notin torn'
                           => d \in transcript'[turn[d].session].user
    BY <1>1 DEF QuestionKept, InFlight
  <2>1. turn[d].session \in Session
    BY LiveShape DEF ChatInv
  <2>2. CASE turn[d].session = s
    BY <1>3, <1>4, <2>2
  <2>3. CASE turn[d].session # s
    BY <1>2, <2>1, <2>3 DEF ChatInv, QuestionKept
  <2>4. QED
    BY <2>2, <2>3
<1>7. UnopenedIsEmpty'
  BY <1>2, <1>3 DEF ChatInv, UnopenedIsEmpty, Empty
<1>8. TranscriptWhole'
  <2> SUFFICES ASSUME NEW r \in Session \ torn'
               PROVE  /\ session'[r] = "active" => /\ transcript'[r].run \subseteq transcript'[r].answer
                                                   /\ transcript'[r].answer \subseteq transcript'[r].user
                      /\ session'[r] = "archived" => transcript'[r].user = {}
    BY DEF TranscriptWhole
  <2>1. CASE r # s
    BY <1>2, <2>1 DEF ChatInv, TranscriptWhole
  <2>2. CASE r = s
    BY <1>3, <2>2
  <2>3. QED
    BY <2>1, <2>2
<1>9. QED
  BY <1>5, <1>6, <1>7, <1>8 DEF ChatInv

\* A crash ends every request in flight and touches no table.
LEMMA CrashKeeps ==
    ASSUME ChatInv, Crash
    PROVE  ChatInv'
<1>1. \A d \in Chat : turn'[d] = IF InFlight(d) THEN [pc |-> "gone"] ELSE turn[d]
  BY DEF Crash
<1>2. \A d \in Chat : turn'[d] \in EndedTurns \/ turn'[d] \in LiveTurns
  BY <1>1 DEF ChatInv, Shape, EndedTurns
<1>3. \A d \in Chat : ~InFlight(d)'
  BY <1>1 DEF InFlight
<1>4. Shape'
  BY <1>2 DEF Crash, ChatInv, Shape
<1>5. QuestionKept'
  BY <1>3 DEF QuestionKept
<1>6. UnopenedIsEmpty' /\ TranscriptWhole'
  BY DEF Crash, ChatInv, UnopenedIsEmpty, TranscriptWhole, Empty
<1>7. QED
  BY <1>4, <1>5, <1>6 DEF ChatInv

-----------------------------------------------------------------------------
\* The inductive invariant of the assistant's tables and requests.
THEOREM ChatInvariant == AssistantSpec => []ChatInv
<1>1. AssistantInit => ChatInv
  BY DEF AssistantInit, ChatInv, Shape, QuestionKept, UnopenedIsEmpty, TranscriptWhole,
         InFlight, NoTurn, Empty, EndedTurns
<1>2. ChatInv /\ [AssistantNext]_vars => ChatInv'
  <2> SUFFICES ASSUME ChatInv, [AssistantNext]_vars
               PROVE  ChatInv'
    OBVIOUS
  <2>1. ASSUME NEW c \in Chat, ChatStep(c)
        PROVE  ChatInv'
    BY <2>1, AskKeeps, StoreKeeps, QuietActions DEF ChatStep
  <2>2. ASSUME NEW s \in Session, Archive(s) \/ RetentionCleanup(s)
        PROVE  ChatInv'
    BY <2>2, TablesKeep
  <2>3. CASE Crash
    BY <2>3, CrashKeeps
  <2>4. CASE UNCHANGED vars
    BY <2>4 DEF vars, ChatInv, Shape, QuestionKept, UnopenedIsEmpty, TranscriptWhole, InFlight,
                Empty
  <2>5. QED
    BY <2>1, <2>2, <2>3, <2>4 DEF AssistantNext
<1>3. QED
  BY <1>1, <1>2, PTL DEF AssistantSpec

\* No active session, short of a torn one, shows an answer without its question
\* or keeps a run without its answer, whatever is archived, retried, cancelled
\* or crashed meanwhile (delete_assistant_session against a chat in flight).
THEOREM TranscriptIsWhole == AssistantSpec => []TranscriptWhole
<1>1. ChatInv => TranscriptWhole
  BY DEF ChatInv
<1>2. QED
  BY <1>1, ChatInvariant, PTL
-----------------------------------------------------------------------------
(* The plan of a request *)

\* What is left to call are at most four tools of the skill.
PlanInv ==
    /\ torn \subseteq Session
    /\ \A c \in Chat : InFlight(c) =>
          /\ turn[c].calls \in Seq(AllowedTools(turn[c].skill))
          /\ Len(turn[c].calls) <= MaxTools

\* A step of one request keeps the plans when it keeps its own.
LEMMA PlanStep ==
    ASSUME ChatInv, PlanInv, NEW c \in Chat, UNCHANGED torn,
           \A d \in Chat \ {c} : turn'[d] = turn[d],
           InFlight(c)' => /\ turn'[c].calls \in Seq(AllowedTools(turn'[c].skill))
                           /\ Len(turn'[c].calls) <= MaxTools
    PROVE  PlanInv'
<1>1. ASSUME NEW d \in Chat, InFlight(d)', d # c
      PROVE  /\ turn'[d].calls \in Seq(AllowedTools(turn'[d].skill))
             /\ Len(turn'[d].calls) <= MaxTools
  BY <1>1 DEF PlanInv, InFlight
<1> QED
  BY <1>1 DEF PlanInv

\* No request step calls or plans a tool its skill does not allow.
LEMMA PlanKept ==
    ASSUME ChatInv, PlanInv, NEW c \in Chat, ChatStep(c)
    PROVE  PlanInv'
<1>1. turn \in [Chat -> EndedTurns \cup LiveTurns]
  BY DEF ChatInv, Shape
<1>2. ASSUME NEW pc \in {"done", "failed", "gone"}, Leave(c, pc), UNCHANGED torn
      PROVE  PlanInv'
  <2>1. ~InFlight(c)' /\ \A d \in Chat \ {c} : turn'[d] = turn[d]
    BY <1>1, <1>2 DEF Leave, InFlight
  <2> QED
    BY <1>2, <2>1, PlanStep
<1>3. ASSUME NEW named \in Session, NEW stream \in BOOLEAN, Ask(c, named, stream)
      PROVE  PlanInv'
  <2>1. CASE Leave(c, "failed")
    BY <1>2, <1>3, <2>1 DEF Ask
  <2>2. ASSUME NEW s, turn' = [turn EXCEPT ![c] = [pc |-> "guard", session |-> s,
                                 stream |-> stream, skill |-> "angemedia_faq", calls |-> <<>>]]
        PROVE  PlanInv'
    <3>1. turn'[c].calls = <<>> /\ \A d \in Chat \ {c} : turn'[d] = turn[d]
      BY <1>1, <2>2
    <3>2. Len(<<>>) <= MaxTools /\ \A S : <<>> \in Seq(S)
      BY DEF MaxTools
    <3> QED
      BY <1>3, <3>1, <3>2, PlanStep DEF Ask
  <2> QED
    BY <1>3, <2>1, <2>2 DEF Ask
<1>4. ASSUME InFlight(c), NEW pc \in InFlightPcs, Go(c, pc), UNCHANGED torn
      PROVE  PlanInv'
  <2>1. turn[c] \in LiveTurns
    BY <1>4, LiveShape DEF ChatInv
  <2>2. /\ turn'[c].calls = turn[c].calls /\ turn'[c].skill = turn[c].skill
        /\ \A d \in Chat \ {c} : turn'[d] = turn[d]
    BY <1>1, <1>4, <2>1 DEF Go, LiveTurns
  <2> QED
    BY <1>4, <2>2, PlanStep DEF PlanInv
<1>5. CASE Guard(c) \/ Synthesise(c) \/ LlmEnds(c)
  BY <1>4, <1>5 DEF Guard, Synthesise, LlmEnds, InFlight, InFlightPcs
<1>6. CASE Store(c) \/ Disconnect(c)
  BY <1>2, <1>6 DEF Store, Disconnect
<1>7. CASE Execute(c)
  <2>1. InFlight(c) /\ turn[c].calls # <<>>
    BY <1>7 DEF Execute, InFlight
  <2>2. turn[c] \in LiveTurns
    BY <2>1, LiveShape DEF ChatInv
  <2>3. /\ turn'[c].calls = Tail(turn[c].calls) /\ turn'[c].skill = turn[c].skill
        /\ \A d \in Chat \ {c} : turn'[d] = turn[d]
    BY <1>1, <1>7, <2>2 DEF Execute, LiveTurns
  <2>4. ASSUME NEW S, NEW q \in Seq(S), q # <<>>, Len(q) <= MaxTools
        PROVE  Tail(q) \in Seq(S) /\ Len(Tail(q)) <= MaxTools
    BY <2>4 DEF MaxTools
  <2>5. /\ turn'[c].calls \in Seq(AllowedTools(turn'[c].skill))
        /\ Len(turn'[c].calls) <= MaxTools
    BY <2>1, <2>3, <2>4 DEF PlanInv
  <2> QED
    BY <1>7, <2>3, <2>5, PlanStep DEF Execute
<1>8. CASE Prepare(c)
  <2>1. CASE Leave(c, "failed")
    BY <1>2, <1>8, <2>1 DEF Prepare
  <2>2. ASSUME NEW terms, turn' = [turn EXCEPT ![c].pc = "tools",
                                     ![c].skill = SelectSkill(terms),
                                     ![c].calls = PlanTools(SelectSkill(terms), terms)]
        PROVE  PlanInv'
    <3>1. turn[c] \in LiveTurns
      <4>1. InFlight(c)
        BY <1>8 DEF Prepare, InFlight
      <4> QED
        BY <4>1, LiveShape DEF ChatInv
    <3>2. /\ turn'[c].skill = SelectSkill(terms)
          /\ turn'[c].calls = PlanTools(SelectSkill(terms), terms)
          /\ \A d \in Chat \ {c} : turn'[d] = turn[d]
      BY <1>1, <2>2, <3>1 DEF LiveTurns
    <3>3. SelectSkill(terms) \in Skills
      BY DEF SelectSkill, Skills
    <3>4. /\ turn'[c].calls \in Seq(AllowedTools(turn'[c].skill))
          /\ Len(turn'[c].calls) <= MaxTools
      BY <3>2, <3>3, PlanAllowed
    <3>5. UNCHANGED torn
      BY <1>8 DEF Prepare
    <3> QED
      BY <3>2, <3>4, <3>5, PlanStep
  <2> QED
    BY <1>8, <2>1, <2>2 DEF Prepare
<1> QED
  BY <1>3, <1>5, <1>6, <1>7, <1>8 DEF ChatStep

\* The assistant's state has its declared shape, and the executor is never
\* asked for a tool that the selected skill does not allow or the registry does
\* not hold, nor for more than four (plan_assistant_tools, execute_async).
THEOREM AssistantTypeCorrect == AssistantSpec => []AssistantTypeOK
<1>1. AssistantInit => PlanInv
  BY DEF AssistantInit, PlanInv, InFlight, NoTurn
<1>2. ChatInv /\ PlanInv /\ [AssistantNext]_vars => PlanInv'
  <2> SUFFICES ASSUME ChatInv, PlanInv, [AssistantNext]_vars
               PROVE  PlanInv'
    OBVIOUS
  <2>1. ASSUME NEW s \in Session, Archive(s) \/ RetentionCleanup(s)
        PROVE  PlanInv'
    BY <2>1 DEF Archive, RetentionCleanup, PlanInv, InFlight
  <2>2. CASE Crash
    <3>1. \A c \in Chat : ~InFlight(c)'
      BY <2>2 DEF Crash, InFlight
    <3> QED
      BY <2>2, <3>1 DEF Crash, PlanInv
  <2>3. CASE UNCHANGED vars
    BY <2>3 DEF vars, PlanInv, InFlight
  <2> QED
    BY <2>1, <2>2, <2>3, PlanKept DEF AssistantNext
<1>3. ChatInv /\ PlanInv => AssistantTypeOK
  <2> SUFFICES ASSUME ChatInv, PlanInv, NEW c \in Chat
               PROVE  /\ turn[c].pc \in Pcs
                      /\ InFlight(c) =>
                           /\ turn[c].session \in Session
                           /\ turn[c].stream \in BOOLEAN
                           /\ turn[c].skill \in Skills
                           /\ Len(turn[c].calls) <= MaxTools
                           /\ \A i \in DOMAIN turn[c].calls :
                                 turn[c].calls[i] \in AllowedTools(turn[c].skill) \cap Registered
    BY DEF ChatInv, Shape, PlanInv, AssistantTypeOK
  <2>1. turn[c].pc \in Pcs
    BY DEF ChatInv, Shape, EndedTurns, LiveTurns, InFlightPcs, Pcs
  <2>2. ASSUME InFlight(c)
        PROVE  /\ turn[c].session \in Session /\ turn[c].stream \in BOOLEAN
               /\ turn[c].skill \in Skills
    BY <2>2, LiveShape DEF ChatInv, LiveTurns
  <2>3. ASSUME InFlight(c), NEW i \in DOMAIN turn[c].calls
        PROVE  turn[c].calls[i] \in AllowedTools(turn[c].skill) \cap Registered
    <3>1. ASSUME NEW S, NEW q \in Seq(S), NEW k \in DOMAIN q
          PROVE  q[k] \in S
      OBVIOUS
    <3> QED
      BY <2>2, <2>3, <3>1, AllowedAreTools DEF PlanInv
  <2> QED
    BY <2>1, <2>2, <2>3 DEF PlanInv
<1> QED
  BY <1>1, <1>2, <1>3, ChatInvariant, PTL DEF AssistantSpec
=============================================================================
