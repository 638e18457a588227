-------------------------- MODULE VoiceSessionProofs --------------------------
(***************************************************************************)
(* The invariants of VoiceSession, for any number of pages and commands.   *)
(* RUN_LOCK and the flag of the model need only the type invariant; the    *)
(* conversations need to know which requests have been answered (Answered) *)
(* and that every question stands for a conversation with a beginning      *)
(* (Conversations).                                                        *)
(***************************************************************************)
EXTENDS VoiceSession, TLAPS

Answered ==
  /\ \A c \in Commands : stage[c] \notin {"answered", "over"} => reply[c] = Nothing
  /\ \A p \in Pages : lastRun[p] # Nothing => reply[lastRun[p]] # Nothing

Conversations ==
  /\ \A c \in Commands : stage[c] = "new" => context[c] = Nothing
  /\ \A c \in Commands : context[c] # Nothing => reply[context[c]] = "question"
  /\ \A c \in Commands : reply[c] = "question" => original[c] # Nothing
  /\ \A c \in Commands : original[c] # Nothing => stage[original[c]] # "new"

SessionInv ==
  /\ VoiceTypeOK
  /\ LockExact
  /\ FailureStaysInCommand
  /\ Answered
  /\ AnswersLatestQuestion
  /\ Conversations
  /\ QuotesOpening

(***************************************************************************)
(* Nothing is neither a page nor a command nor a kind of response.           *)
(***************************************************************************)
LEMMA NothingIsNone == Nothing \notin Pages /\ Nothing \notin Commands /\ Nothing \notin Replies
BY SessionAssumption DEF SessionAssumption, Nothing, Replies

(***************************************************************************)
(* The invariant holds before anything is said.                            *)
(***************************************************************************)
LEMMA Initially == VoiceInit => SessionInv
<1> SUFFICES ASSUME VoiceInit
             PROVE  SessionInv
  OBVIOUS
<1> USE NothingIsNone DEF VoiceInit
<1>1. VoiceTypeOK
  BY DEF VoiceTypeOK, Stages, Replies
<1>2. LockExact /\ FailureStaysInCommand
  BY DEF LockExact, FailureStaysInCommand, Inside
<1>3. Answered /\ AnswersLatestQuestion
  BY DEF Answered, AnswersLatestQuestion
<1>4. Conversations /\ QuotesOpening
  BY DEF Conversations, QuotesOpening, Replies
<1> QED
  BY <1>1, <1>2, <1>3, <1>4 DEF SessionInv

(***************************************************************************)
(* Every step keeps the types.                                             *)
(***************************************************************************)
LEMMA TypesKept == VoiceTypeOK /\ [VoiceNext]_voiceVars => VoiceTypeOK'
<1> SUFFICES ASSUME VoiceTypeOK, [VoiceNext]_voiceVars
             PROVE  VoiceTypeOK'
  OBVIOUS
<1> USE NothingIsNone DEF VoiceTypeOK, Stages, Inside, Replies
<1>1. ASSUME NEW p \in Pages, NEW c \in Commands, RunCommand(p, c)
      PROVE  VoiceTypeOK'
  BY <1>1 DEF RunCommand, answerVars
<1>2. ASSUME NEW p \in Pages, Clear(p)
      PROVE  VoiceTypeOK'
  BY <1>2 DEF Clear, answerVars, commandVars
<1>3. ASSUME NEW p \in Pages, SwitchLanguage(p)
      PROVE  VoiceTypeOK'
  BY <1>3 DEF SwitchLanguage, RenderRun, answerVars, commandVars
<1>4. ASSUME NEW p \in Pages, Reload(p)
      PROVE  VoiceTypeOK'
  BY <1>4 DEF Reload, answerVars
<1>5. ASSUME NEW c \in Commands, ResponseArrives(c)
      PROVE  VoiceTypeOK'
  BY <1>5 DEF ResponseArrives, RenderRun, answerVars
<1>6. ASSUME NEW c \in Commands, PostRun(c)
      PROVE  VoiceTypeOK'
  BY <1>6 DEF PostRun, pageVars, commandVars
<1>7. ASSUME NEW c \in Commands, StartRun(c)
      PROVE  VoiceTypeOK'
  BY <1>7 DEF StartRun, Respond, pageVars, commandVars
<1>8. ASSUME NEW c \in Commands, ParseIntent(c)
      PROVE  VoiceTypeOK'
  <2>1. original' \in [Commands -> Commands \cup {Nothing}]
    <3>1. context[c] # Nothing => original[context[c]] \in Commands \cup {Nothing}
      OBVIOUS
    <3> QED
      BY <1>8, <3>1 DEF ParseIntent, QuoteOriginal, answerVars
  <2>2. UNCHANGED <<pageVars, runLock, commandVars>> /\ available' \in BOOLEAN
    BY <1>8 DEF ParseIntent
  <2>3. stage' \in [Commands -> Stages] /\ reply' \in [Commands -> Replies \cup {Nothing}]
    BY <1>8 DEF ParseIntent, Respond, answerVars
  <2> QED
    BY <2>1, <2>2, <2>3 DEF pageVars, commandVars
<1>9. ASSUME NEW c \in Commands, ExecuteAction(c)
      PROVE  VoiceTypeOK'
  BY <1>9 DEF ExecuteAction, Respond, pageVars, commandVars
<1>10. ASSUME NEW c \in Commands, ReleaseRunLock(c)
       PROVE  VoiceTypeOK'
  BY <1>10 DEF ReleaseRunLock, pageVars, commandVars, answerVars
<1>11. CASE BuildStatusPayload
  BY <1>11 DEF BuildStatusPayload, pageVars, commandVars, answerVars
<1>12. CASE UNCHANGED voiceVars
  BY <1>12 DEF voiceVars, pageVars, commandVars, answerVars
<1> QED
  BY <1>1, <1>2, <1>3, <1>4, <1>5, <1>6, <1>7, <1>8, <1>9, <1>10, <1>11, <1>12
  DEF VoiceNext, ServeRun
-----------------------------------------------------------------------------
(***************************************************************************)
(* At most one request is inside, and the lock tells whether one is: only  *)
(* PostRun enters, when the lock is free, and only ReleaseRunLock leaves.  *)
(***************************************************************************)
LEMMA LockKept == VoiceTypeOK /\ LockExact /\ [VoiceNext]_voiceVars => LockExact'
<1> SUFFICES ASSUME VoiceTypeOK, LockExact, [VoiceNext]_voiceVars
             PROVE  LockExact'
  OBVIOUS
<1> USE DEF VoiceTypeOK, LockExact, Inside
<1>1. ASSUME NEW p \in Pages, NEW c \in Commands, RunCommand(p, c)
      PROVE  LockExact'
  BY <1>1 DEF RunCommand
<1>2. CASE UNCHANGED <<stage, runLock>>
  BY <1>2
<1>3. ASSUME NEW c \in Commands, PostRun(c)
      PROVE  LockExact'
  BY <1>3 DEF PostRun
<1>4. ASSUME NEW c \in Commands, StartRun(c)
      PROVE  LockExact'
  BY <1>4 DEF StartRun, Respond
<1>5. ASSUME NEW c \in Commands, ParseIntent(c)
      PROVE  LockExact'
  BY <1>5 DEF ParseIntent, Respond
<1>6. ASSUME NEW c \in Commands, ExecuteAction(c)
      PROVE  LockExact'
  BY <1>6 DEF ExecuteAction, Respond
<1>7. ASSUME NEW c \in Commands, ReleaseRunLock(c)
      PROVE  LockExact'
  BY <1>7 DEF ReleaseRunLock
<1> QED
  BY <1>1, <1>2, <1>3, <1>4, <1>5, <1>6, <1>7
  DEF VoiceNext, ServeRun, Clear, SwitchLanguage, Reload, ResponseArrives,
      BuildStatusPayload, voiceVars

(***************************************************************************)
(* The flag is cleared by the command that is being parsed alone, and set  *)
(* before the next one is parsed.                                          *)
(***************************************************************************)
LEMMA FailureKept ==
  VoiceTypeOK /\ LockExact /\ FailureStaysInCommand /\ [VoiceNext]_voiceVars => FailureStaysInCommand'
<1> SUFFICES ASSUME VoiceTypeOK, LockExact, FailureStaysInCommand, [VoiceNext]_voiceVars
             PROVE  FailureStaysInCommand'
  OBVIOUS
<1> USE DEF VoiceTypeOK, FailureStaysInCommand
<1>1. ASSUME NEW p \in Pages, NEW c \in Commands, RunCommand(p, c)
      PROVE  FailureStaysInCommand'
  BY <1>1 DEF RunCommand
<1>2. CASE UNCHANGED stage /\ (available => available')
  BY <1>2
<1>3. ASSUME NEW c \in Commands, PostRun(c)
      PROVE  FailureStaysInCommand'
  BY <1>3 DEF PostRun
<1>4. ASSUME NEW c \in Commands, StartRun(c)
      PROVE  FailureStaysInCommand'
  BY <1>4 DEF StartRun, Respond
<1>5. ASSUME NEW c \in Commands, ParseIntent(c)
      PROVE  FailureStaysInCommand'
  <2>1. \A d \in Commands : d # c => stage[d] # "parsing"
    BY <1>5 DEF ParseIntent, LockExact, Inside
  <2> QED
    BY <1>5, <2>1 DEF ParseIntent, Respond
<1>6. ASSUME NEW c \in Commands, ExecuteAction(c) \/ ReleaseRunLock(c)
      PROVE  FailureStaysInCommand'
  BY <1>6 DEF ExecuteAction, ReleaseRunLock, Respond
<1> QED
  BY <1>1, <1>2, <1>3, <1>4, <1>5, <1>6
  DEF VoiceNext, ServeRun, Clear, SwitchLanguage, Reload, ResponseArrives,
      BuildStatusPayload, voiceVars
(***************************************************************************)
(* A request is answered once, when its stage becomes "answered" or "over",*)
(* and a page renders only what was answered.                              *)
(***************************************************************************)
LEMMA AnsweredKept == VoiceTypeOK /\ Answered /\ [VoiceNext]_voiceVars => Answered'
<1> SUFFICES ASSUME VoiceTypeOK, Answered, [VoiceNext]_voiceVars
             PROVE  Answered'
  OBVIOUS
<1> USE NothingIsNone DEF VoiceTypeOK, Answered, Replies, Nothing
<1>1. ASSUME NEW p \in Pages, NEW c \in Commands, RunCommand(p, c)
      PROVE  Answered'
  BY <1>1 DEF RunCommand, answerVars
<1>2. ASSUME NEW p \in Pages, SwitchLanguage(p) \/ Reload(p)
      PROVE  Answered'
  BY <1>2 DEF SwitchLanguage, RenderRun, Reload, answerVars
<1>3. ASSUME NEW c \in Commands, ResponseArrives(c)
      PROVE  Answered'
  BY <1>3 DEF ResponseArrives, RenderRun, answerVars
<1>4. ASSUME NEW c \in Commands, PostRun(c)
      PROVE  Answered'
  BY <1>4 DEF PostRun, pageVars
<1>5. ASSUME NEW c \in Commands, StartRun(c)
      PROVE  Answered'
  BY <1>5 DEF StartRun, Respond, pageVars
<1>6. ASSUME NEW c \in Commands, ParseIntent(c)
      PROVE  Answered'
  BY <1>6 DEF ParseIntent, Respond, pageVars, answerVars
<1>7. ASSUME NEW c \in Commands, ExecuteAction(c)
      PROVE  Answered'
  BY <1>7 DEF ExecuteAction, Respond, pageVars
<1>8. ASSUME NEW c \in Commands, ReleaseRunLock(c)
      PROVE  Answered'
  BY <1>8 DEF ReleaseRunLock, pageVars, answerVars
<1>9. CASE UNCHANGED <<lastRun, stage, reply>>
  BY <1>9
<1> QED
  BY <1>1, <1>2, <1>3, <1>4, <1>5, <1>6, <1>7, <1>8, <1>9
  DEF VoiceNext, ServeRun, Clear, BuildStatusPayload, voiceVars, pageVars, answerVars

(***************************************************************************)
(* Rendering sets the last result and the pending question together, and   *)
(* what was rendered has been answered and is not answered again.          *)
(***************************************************************************)
LEMMA LatestKept ==
  VoiceTypeOK /\ Answered /\ AnswersLatestQuestion /\ [VoiceNext]_voiceVars => AnswersLatestQuestion'
<1> SUFFICES ASSUME VoiceTypeOK, Answered, AnswersLatestQuestion, [VoiceNext]_voiceVars
             PROVE  AnswersLatestQuestion'
  OBVIOUS
<1> USE NothingIsNone DEF VoiceTypeOK, AnswersLatestQuestion
<1>1. CASE UNCHANGED <<lastRun, pendingClarification, reply>>
  BY <1>1
<1>2. ASSUME NEW p \in Pages, Clear(p) \/ SwitchLanguage(p) \/ Reload(p)
      PROVE  AnswersLatestQuestion'
  BY <1>2 DEF Clear, SwitchLanguage, RenderRun, Reload, answerVars
<1>3. ASSUME NEW c \in Commands, ResponseArrives(c)
      PROVE  AnswersLatestQuestion'
  BY <1>3 DEF ResponseArrives, RenderRun, answerVars
<1>4. ASSUME NEW c \in Commands,
             PostRun(c) \/ StartRun(c) \/ ParseIntent(c) \/ ExecuteAction(c)
      PROVE  AnswersLatestQuestion'
  <2>1. reply[c] = Nothing
    BY <1>4 DEF Answered, PostRun, StartRun, ParseIntent, ExecuteAction
  <2>2. UNCHANGED <<lastRun, pendingClarification>>
    BY <1>4 DEF PostRun, StartRun, ParseIntent, ExecuteAction, pageVars
  <2>3. \A d \in Commands : d # c => reply'[d] = reply[d]
    BY <1>4 DEF PostRun, StartRun, ParseIntent, ExecuteAction, Respond, answerVars
  <2>4. \A p \in Pages : lastRun[p] # Nothing => lastRun[p] # c
    BY <2>1 DEF Answered
  <2> QED
    BY <2>2, <2>3, <2>4
<1> QED
  BY <1>1, <1>2, <1>3, <1>4
  DEF VoiceNext, ServeRun, RunCommand, ReleaseRunLock, BuildStatusPayload, voiceVars,
      pageVars, answerVars

(***************************************************************************)
(* The conversations: what a context refers to stays a question, and the   *)
(* sentence a question quotes has been said, without a context.            *)
(***************************************************************************)
LEMMA ConversationsKept ==
  VoiceTypeOK /\ Answered /\ AnswersLatestQuestion /\ Conversations /\ QuotesOpening
    /\ [VoiceNext]_voiceVars => Conversations' /\ QuotesOpening'
<1> SUFFICES ASSUME VoiceTypeOK, Answered, AnswersLatestQuestion, Conversations,
                    QuotesOpening, [VoiceNext]_voiceVars
             PROVE  Conversations' /\ QuotesOpening'
  OBVIOUS
<1> USE NothingIsNone DEF VoiceTypeOK, Conversations, QuotesOpening
<1>1. ASSUME NEW p \in Pages, NEW c \in Commands, RunCommand(p, c)
      PROVE  Conversations' /\ QuotesOpening'
  <2>1. pendingClarification[p] # Nothing => reply[pendingClarification[p]] = "question"
    BY DEF AnswersLatestQuestion
  <2> QED
    BY <1>1, <2>1 DEF RunCommand, answerVars
<1>2. CASE UNCHANGED <<stage, context, answerVars>>
  BY <1>2 DEF answerVars
<1>3. ASSUME NEW c \in Commands, PostRun(c) \/ StartRun(c) \/ ExecuteAction(c)
      PROVE  Conversations' /\ QuotesOpening'
  <2>1. reply[c] = Nothing /\ reply'[c] # "question"
    BY <1>3 DEF Answered, PostRun, StartRun, ExecuteAction, Respond, Nothing
  <2>2. UNCHANGED <<context, original>>
    BY <1>3 DEF PostRun, StartRun, ExecuteAction, commandVars
  <2>3. \A d \in Commands : d # c => reply'[d] = reply[d] /\ stage'[d] = stage[d]
    BY <1>3 DEF PostRun, StartRun, ExecuteAction, Respond
  <2>4. stage[c] # "new" /\ stage'[c] # "new"
    BY <1>3 DEF PostRun, StartRun, ExecuteAction, Respond
  <2> QED
    BY <2>1, <2>2, <2>3, <2>4 DEF Nothing
<1>4. ASSUME NEW c \in Commands, ParseIntent(c)
      PROVE  Conversations' /\ QuotesOpening'
  <2>1. reply[c] = Nothing /\ stage[c] # "new" /\ stage'[c] # "new"
    BY <1>4 DEF Answered, ParseIntent, Respond
  <2>2. UNCHANGED context
    BY <1>4 DEF ParseIntent, commandVars
  <2>3. \A d \in Commands : d # c => /\ reply'[d] = reply[d]
                                     /\ stage'[d] = stage[d]
                                     /\ original'[d] = original[d]
    BY <1>4 DEF ParseIntent, Respond, QuoteOriginal, answerVars
  <2>4. CASE reply'[c] # "question" /\ UNCHANGED original
    BY <2>1, <2>2, <2>3, <2>4 DEF Nothing
  <2>5. CASE QuoteOriginal(c)
    <3>1. original'[c] = IF context[c] = Nothing THEN c ELSE original[context[c]]
      BY <2>5 DEF QuoteOriginal
    <3>2. /\ original'[c] \in Commands
          /\ context[original'[c]] = Nothing
          /\ stage[original'[c]] # "new"
      BY <2>1, <3>1
    <3> QED
      BY <2>1, <2>2, <2>3, <3>2 DEF Nothing
  <2> QED
    BY <1>4, <2>1, <2>4, <2>5 DEF ParseIntent, Respond, answerVars, Nothing
<1>5. ASSUME NEW c \in Commands, ReleaseRunLock(c)
      PROVE  Conversations' /\ QuotesOpening'
  BY <1>5 DEF ReleaseRunLock, commandVars, answerVars
<1> QED
  BY <1>1, <1>2, <1>3, <1>4, <1>5
  DEF VoiceNext, ServeRun, Clear, SwitchLanguage, Reload, ResponseArrives,
      BuildStatusPayload, voiceVars, commandVars, answerVars
-----------------------------------------------------------------------------
(***************************************************************************)
(* The inductive invariant of the session.                                 *)
(***************************************************************************)
LEMMA SessionKept == SessionInv /\ [VoiceNext]_voiceVars => SessionInv'
BY TypesKept, LockKept, FailureKept, AnsweredKept, LatestKept, ConversationsKept
DEF SessionInv

THEOREM SessionInvariant == VoiceSpec => []SessionInv
BY Initially, SessionKept, PTL DEF VoiceSpec

(***************************************************************************)
(* The phone is driven by one command at a time, and RUN_LOCK is held only *)
(* while one is served.                                                    *)
(***************************************************************************)
THEOREM RunLockExact == VoiceSpec => []LockExact
<1>1. SessionInv => LockExact
  BY DEF SessionInv
<1> QED
  BY SessionInvariant, <1>1, PTL

(***************************************************************************)
(* A sentence is always parsed with the model enabled.                     *)
(***************************************************************************)
THEOREM FailureContained == VoiceSpec => []FailureStaysInCommand
<1>1. SessionInv => FailureStaysInCommand
  BY DEF SessionInv
<1> QED
  BY SessionInvariant, <1>1, PTL

(***************************************************************************)
(* A context quotes the sentence that began its conversation.              *)
(***************************************************************************)
THEOREM OpeningQuoted == VoiceSpec => []QuotesOpening
<1>1. SessionInv => QuotesOpening
  BY DEF SessionInv
<1> QED
  BY SessionInvariant, <1>1, PTL

(***************************************************************************)
(* The pending question of a page is the one it rendered last.             *)
(***************************************************************************)
THEOREM LatestQuestion == VoiceSpec => []AnswersLatestQuestion
<1>1. SessionInv => AnswersLatestQuestion
  BY DEF SessionInv
<1> QED
  BY SessionInvariant, <1>1, PTL

(***************************************************************************)
(* Type correctness.                                                       *)
(***************************************************************************)
THEOREM SessionTypeCorrect == VoiceSpec => []VoiceTypeOK
<1>1. SessionInv => VoiceTypeOK
  BY DEF SessionInv
<1> QED
  BY SessionInvariant, <1>1, PTL
-----------------------------------------------------------------------------
(***************************************************************************)
(* The reason behind ButtonComesBack: a page whose button is disabled has  *)
(* a request of its own that was answered, or that the server is still to  *)
(* answer. No step loses the request of a page that goes on to wait.       *)
(***************************************************************************)
Owes(c) == reply[c] # Nothing \/ stage[c] \in {"sent", "starting", "parsing", "acting"}

ButtonAwaitsAnswer == \A p \in busy : \E c \in Commands : pageOf[c] = p /\ Owes(c)

LEMMA AwaitsKept ==
  VoiceTypeOK /\ Answered /\ ButtonAwaitsAnswer /\ [VoiceNext]_voiceVars
    => ButtonAwaitsAnswer'
<1> SUFFICES ASSUME VoiceTypeOK, Answered, ButtonAwaitsAnswer, [VoiceNext]_voiceVars, NEW p \in busy'
             PROVE  \E c \in Commands : pageOf'[c] = p /\ Owes(c)'
  BY DEF ButtonAwaitsAnswer
<1> USE NothingIsNone DEF VoiceTypeOK, Owes, Replies, Nothing
<1>1. ASSUME NEW q \in Pages, NEW c \in Commands, RunCommand(q, c)
      PROVE  \E d \in Commands : pageOf'[d] = p /\ Owes(d)'
  <2>1. CASE p = q
    BY <1>1, <2>1 DEF RunCommand
  <2>2. CASE p # q
    <3>1. PICK d \in Commands : pageOf[d] = p /\ Owes(d)
      BY <1>1, <2>2 DEF RunCommand, ButtonAwaitsAnswer
    <3>2. d # c
      BY <1>1, <3>1 DEF RunCommand, Answered
    <3> QED
      BY <1>1, <3>1, <3>2 DEF RunCommand, answerVars
  <2> QED
    BY <2>1, <2>2
<1>2. ASSUME NEW c \in Commands, ResponseArrives(c)
      PROVE  \E d \in Commands : pageOf'[d] = p /\ Owes(d)'
  <2>1. p \in busy /\ p # pageOf[c]
    BY <1>2 DEF ResponseArrives
  <2>2. PICK d \in Commands : pageOf[d] = p /\ Owes(d)
    BY <2>1 DEF ButtonAwaitsAnswer
  <2> QED
    BY <1>2, <2>1, <2>2 DEF ResponseArrives, answerVars
<1>3. ASSUME NEW q \in Pages, Reload(q)
      PROVE  \E d \in Commands : pageOf'[d] = p /\ Owes(d)'
  <2>1. p \in busy /\ p # q
    BY <1>3 DEF Reload
  <2>2. PICK d \in Commands : pageOf[d] = p /\ Owes(d)
    BY <2>1 DEF ButtonAwaitsAnswer
  <2> QED
    BY <1>3, <2>1, <2>2 DEF Reload, answerVars
<1>4. ASSUME NEW c \in Commands, ServeRun(c)
      PROVE  \E d \in Commands : pageOf'[d] = p /\ Owes(d)'
  <2>1. busy' = busy /\ pageOf' = pageOf
    BY <1>4 DEF ServeRun, PostRun, StartRun, ParseIntent, ExecuteAction, ReleaseRunLock,
       pageVars, commandVars
  <2>2. PICK d \in Commands : pageOf[d] = p /\ Owes(d)
    BY <2>1 DEF ButtonAwaitsAnswer
  <2>3. Owes(d)'
    <3>1. CASE PostRun(c)
      BY <2>2, <3>1 DEF PostRun
    <3>2. CASE StartRun(c) \/ ParseIntent(c) \/ ExecuteAction(c)
      BY <2>2, <3>2 DEF StartRun, ParseIntent, ExecuteAction, Respond, answerVars
    <3>3. CASE ReleaseRunLock(c)
      BY <2>2, <3>3 DEF ReleaseRunLock, answerVars
    <3> QED
      BY <1>4, <3>1, <3>2, <3>3 DEF ServeRun
  <2> QED
    BY <2>1, <2>2, <2>3
<1>5. CASE busy' \subseteq busy /\ UNCHANGED <<stage, pageOf, reply>>
  BY <1>5 DEF ButtonAwaitsAnswer
<1> QED
  BY <1>1, <1>2, <1>3, <1>4, <1>5
  DEF VoiceNext, Clear, SwitchLanguage, BuildStatusPayload, voiceVars, pageVars,
      commandVars, answerVars

(***************************************************************************)
(* A page never waits for a result that is not coming.                     *)
(***************************************************************************)
THEOREM ButtonIsOwed == VoiceSpec => []ButtonAwaitsAnswer
<1>1. VoiceInit => ButtonAwaitsAnswer
  BY DEF VoiceInit, ButtonAwaitsAnswer
<1>2. SessionInv => VoiceTypeOK /\ Answered
  BY DEF SessionInv
<1> QED
  BY <1>1, <1>2, SessionInvariant, AwaitsKept, PTL DEF VoiceSpec
=============================================================================
