---------------------------- MODULE VoiceSession ----------------------------
(***************************************************************************)
(* Voice commands in the ClawEase demo: the elder and operator pages       *)
(* (demo/elder.html, demo/operator.html), the threads of the demo server   *)
(* that serve POST /api/run and GET /api/status (scripts/demo_server.py),  *)
(* and the flag that disables the model after a failure                    *)
(* (scripts/voice_to_action.py).                                           *)
(*                                                                         *)
(* A command is one sentence, said to one page and posted to the server.   *)
(* The server may answer with a question; the page keeps its context and   *)
(* posts it with the next sentence. A context is named by the command that *)
(* was answered with the question. Each request has a thread of its own;   *)
(* pages and threads interleave between any two steps.                     *)
(*                                                                         *)
(* Left abstract: what is said, understood and done on the phone; the      *)
(* dry-run, auto-send and speech switches, which only choose among the     *)
(* outcomes; the model's part in summarising an inbox, whose failure is    *)
(* caught where it is called; the status request between a response and    *)
(* the return of the operator page's button. The server is not stopped.    *)
(***************************************************************************)
CONSTANTS
  Pages,        \* open pages
  ElderPages,   \* those that show elder.html; the others show operator.html
  Commands      \* sentences, each posted at most once

Nothing == "none"

ASSUME SessionAssumption ==
  /\ ElderPages \subseteq Pages
  /\ Nothing \notin Pages \cup Commands

VARIABLES
  busy,                  \* pages whose run button is disabled
  lastRun,               \* per page, the command of the last result it rendered
  pendingClarification,  \* per page, the question its next sentence answers
  runLock,               \* RUN_LOCK is held
  available,             \* OPENCLAW_AVAILABLE
  stage,                 \* per command, where its request is
  pageOf,                \* per command, the page that waits for its result
  context,               \* per command, the question it was posted with
  original,              \* per question, originalVoiceText in its context
  reply                  \* per command, the kind of its response

pageVars == <<busy, lastRun, pendingClarification>>
commandVars == <<pageOf, context>>
answerVars == <<original, reply>>
voiceVars == <<pageVars, runLock, available, stage, commandVars, answerVars>>

(***************************************************************************)
(* The stages of a request; from "starting" to "answered" its thread is in *)
(* the block that RUN_LOCK guards. A result is a question, the outcome of  *)
(* an action, or an HTTP error.                                            *)
(***************************************************************************)
Inside == {"starting", "parsing", "acting", "answered"}
Stages == Inside \cup {"new", "sent", "over"}
Replies == {"question", "outcome", "error"}

VoiceInit ==
  /\ busy = {}
  /\ lastRun = [p \in Pages |-> Nothing]
  /\ pendingClarification = [p \in Pages |-> Nothing]
  /\ runLock = FALSE
  /\ available = TRUE
  /\ stage = [c \in Commands |-> "new"]
  /\ pageOf = [c \in Commands |-> Nothing]
  /\ context = [c \in Commands |-> Nothing]
  /\ original = [c \in Commands |-> Nothing]
  /\ reply = [c \in Commands |-> Nothing]
-----------------------------------------------------------------------------
(***************************************************************************)
(* The page. The run button posts the sentence with the question that is   *)
(* pending.                                                                *)
(***************************************************************************)
RunCommand(p, c) ==
  /\ p \notin busy
  /\ stage[c] = "new"
  /\ busy' = busy \cup {p}
  /\ stage' = [stage EXCEPT ![c] = "sent"]
  /\ pageOf' = [pageOf EXCEPT ![c] = p]
  /\ context' = [context EXCEPT ![c] = pendingClarification[p]]
  /\ UNCHANGED <<lastRun, pendingClarification, runLock, available, answerVars>>

RememberAnyResult(p, c) ==   \* mutant: a result without a question clears nothing
  /\ lastRun' = [lastRun EXCEPT ![p] = c]
  /\ pendingClarification' =
       IF reply[c] = "question" THEN [pendingClarification EXCEPT ![p] = c]
       ELSE pendingClarification

(***************************************************************************)
(* renderRun: the result becomes the last one, and its question, if it has *)
(* one, the pending one.                                                   *)
(***************************************************************************)
RenderRun(p, c) ==
  /\ lastRun' = [lastRun EXCEPT ![p] = c]
  /\ pendingClarification' =
       [pendingClarification EXCEPT ![p] = IF reply[c] = "question" THEN c ELSE Nothing]

StuckOnError(c) ==   \* mutant: the catch block leaves the button disabled
  LET p == pageOf[c]
  IN  /\ p # Nothing
      /\ reply[c] # Nothing
      /\ pageOf' = [pageOf EXCEPT ![c] = Nothing]
      /\ IF reply[c] = "error"
         THEN UNCHANGED <<busy, lastRun, pendingClarification>>
         ELSE RenderRun(p, c) /\ busy' = busy \ {p}
      /\ UNCHANGED <<runLock, available, stage, context, answerVars>>

(***************************************************************************)
(* The response arrives. An error is shown but not rendered: the question  *)
(* that was pending stays so.                                              *)
(***************************************************************************)
ResponseArrives(c) ==
  LET p == pageOf[c]
  IN  /\ p # Nothing
      /\ reply[c] # Nothing
      /\ pageOf' = [pageOf EXCEPT ![c] = Nothing]
      /\ busy' = busy \ {p}
      /\ IF reply[c] = "error"
         THEN UNCHANGED <<lastRun, pendingClarification>>
         ELSE RenderRun(p, c)
      /\ UNCHANGED <<runLock, available, stage, context, answerVars>>

(***************************************************************************)
(* The elder page has a button to clear everything and start over.         *)
(***************************************************************************)
Clear(p) ==
  /\ p \in ElderPages \ busy
  /\ pendingClarification' = [pendingClarification EXCEPT ![p] = Nothing]
  /\ UNCHANGED <<busy, lastRun, runLock, available, stage, commandVars, answerVars>>

(***************************************************************************)
(* Switching the language renders the last result again. The elder page    *)
(* thereby enables its buttons if that result is a question.               *)
(***************************************************************************)
SwitchLanguage(p) ==
  /\ lastRun[p] # Nothing
  /\ RenderRun(p, lastRun[p])
  /\ busy' = IF p \in ElderPages /\ reply[lastRun[p]] = "question"
             THEN busy \ {p} ELSE busy
  /\ UNCHANGED <<runLock, available, stage, commandVars, answerVars>>

(***************************************************************************)
(* A reloaded page starts afresh and waits for nothing; the server goes on *)
(* with what the page had posted.                                          *)
(***************************************************************************)
Reload(p) ==
  /\ busy' = busy \ {p}
  /\ lastRun' = [lastRun EXCEPT ![p] = Nothing]
  /\ pendingClarification' = [pendingClarification EXCEPT ![p] = Nothing]
  /\ pageOf' = [c \in Commands |-> IF pageOf[c] = p THEN Nothing ELSE pageOf[c]]
  /\ UNCHANGED <<runLock, available, stage, context, answerVars>>
-----------------------------------------------------------------------------
(***************************************************************************)
(* The server. A request either takes RUN_LOCK at once or is refused (409).*)
(***************************************************************************)
PostRun(c) ==
  /\ stage[c] = "sent"
  /\ IF runLock
     THEN /\ stage' = [stage EXCEPT ![c] = "over"]
          /\ reply' = [reply EXCEPT ![c] = "error"]
          /\ UNCHANGED runLock
     ELSE /\ stage' = [stage EXCEPT ![c] = "starting"]
          /\ runLock' = TRUE
          /\ UNCHANGED reply
  /\ UNCHANGED <<pageVars, available, commandVars, original>>

Respond(c, kind) ==
  /\ stage' = [stage EXCEPT ![c] = "answered"]
  /\ reply' = [reply EXCEPT ![c] = kind]

StartWithoutReset(c) ==   \* mutant: the flag of the previous command is kept
  /\ stage[c] = "starting"
  /\ \/ /\ stage' = [stage EXCEPT ![c] = "parsing"]
        /\ UNCHANGED reply
     \/ Respond(c, "error")
  /\ UNCHANGED <<pageVars, runLock, available, commandVars, original>>

(***************************************************************************)
(* bootstrap_runtime; a setting that cannot be read is an error (500).     *)
(***************************************************************************)
StartRun(c) ==
  /\ stage[c] = "starting"
  /\ \/ /\ available' = TRUE
        /\ stage' = [stage EXCEPT ![c] = "parsing"]
        /\ UNCHANGED reply
     \/ /\ Respond(c, "error")
        /\ UNCHANGED available
  /\ UNCHANGED <<pageVars, runLock, commandVars, original>>

KeepLatestSentence(c) ==   \* mutant: the context always quotes this sentence
  original' = [original EXCEPT ![c] = c]

(***************************************************************************)
(* The context of a question quotes the sentence the elder began with.     *)
(***************************************************************************)
QuoteOriginal(c) ==
  original' = [original EXCEPT ![c] = IF context[c] = Nothing THEN c
                                      ELSE original[context[c]]]

(***************************************************************************)
(* The model understands the sentence or wants to ask. It fails at once if *)
(* it is disabled; a failure disables it, and the local rules, which never *)
(* ask, understand the sentence or give up (500).                          *)
(***************************************************************************)
ParseIntent(c) ==
  /\ stage[c] = "parsing"
  /\ \/ /\ available
        /\ stage' = [stage EXCEPT ![c] = "acting"]
        /\ UNCHANGED <<available, answerVars>>
     \/ /\ available
        /\ Respond(c, "question")
        /\ QuoteOriginal(c)
        /\ UNCHANGED available
     \/ /\ available' = FALSE
        /\ \/ stage' = [stage EXCEPT ![c] = "acting"] /\ UNCHANGED reply
           \/ Respond(c, "error")
        /\ UNCHANGED original
  /\ UNCHANGED <<pageVars, runLock, commandVars>>

(***************************************************************************)
(* The action on the phone ends, well or not, or raises (500).             *)
(***************************************************************************)
ExecuteAction(c) ==
  /\ stage[c] = "acting"
  /\ \E kind \in {"outcome", "error"} : Respond(c, kind)
  /\ UNCHANGED <<pageVars, runLock, available, commandVars, original>>

(***************************************************************************)
(* finally: the lock is released after the response was sent.              *)
(***************************************************************************)
ReleaseRunLock(c) ==
  /\ stage[c] = "answered"
  /\ stage' = [stage EXCEPT ![c] = "over"]
  /\ runLock' = FALSE
  /\ UNCHANGED <<pageVars, available, commandVars, answerVars>>

(***************************************************************************)
(* GET /api/status, which each page asks for every 8 seconds, also runs    *)
(* bootstrap_runtime, without the lock.                                    *)
(***************************************************************************)
BuildStatusPayload ==
  /\ available' = TRUE
  /\ UNCHANGED <<pageVars, runLock, stage, commandVars, answerVars>>

ServeRun(c) ==
  PostRun(c) \/ StartRun(c) \/ ParseIntent(c) \/ ExecuteAction(c) \/ ReleaseRunLock(c)

VoiceNext ==
  \/ \E p \in Pages :
       \/ \E c \in Commands : RunCommand(p, c)
       \/ Clear(p)
       \/ SwitchLanguage(p)
       \/ Reload(p)
  \/ \E c \in Commands : ResponseArrives(c) \/ ServeRun(c)
  \/ BuildStatusPayload

VoiceSpec == VoiceInit /\ [][VoiceNext]_voiceVars

(***************************************************************************)
(* A thread goes on with its request, since the calls to the model and     *)
(* most of those to the phone have timeouts (the adb shell of the adapters *)
(* and local speech have none, and are assumed to return), and the browser *)
(* handles a response it received.                                         *)
(***************************************************************************)
VoiceFairness ==
  \A c \in Commands :
    WF_voiceVars(ServeRun(c)) /\ WF_voiceVars(ResponseArrives(c))
-----------------------------------------------------------------------------
VoiceTypeOK ==
  /\ busy \subseteq Pages
  /\ lastRun \in [Pages -> Commands \cup {Nothing}]
  /\ pendingClarification \in [Pages -> Commands \cup {Nothing}]
  /\ {runLock, available} \subseteq BOOLEAN
  /\ stage \in [Commands -> Stages]
  /\ pageOf \in [Commands -> Pages \cup {Nothing}]
  /\ context \in [Commands -> Commands \cup {Nothing}]
  /\ original \in [Commands -> Commands \cup {Nothing}]
  /\ reply \in [Commands -> Replies \cup {Nothing}]

(***************************************************************************)
(* RUN_LOCK is exact: the phone is never driven by two commands at once,   *)
(* and the lock is held only while a command is being served, so that no   *)
(* failure leaves every later command refused with 409.                    *)
(***************************************************************************)
LockExact ==
  /\ \A c, d \in Commands : stage[c] \in Inside /\ stage[d] \in Inside => c = d
  /\ runLock <=> \E c \in Commands : stage[c] \in Inside

(***************************************************************************)
(* A failure of the model does not outlive its command: when a sentence is *)
(* parsed the model is enabled, whatever failed before and whichever       *)
(* status requests came between.                                           *)
(***************************************************************************)
FailureStaysInCommand == \A c \in Commands : stage[c] = "parsing" => available

(***************************************************************************)
(* However long the questions go on, the context quotes the sentence that  *)
(* began the conversation, and never the answer to a question.             *)
(***************************************************************************)
QuotesOpening ==
  \A c \in Commands : original[c] # Nothing => context[original[c]] = Nothing

(***************************************************************************)
(* The question a page has pending is the one of the last result it        *)
(* rendered: a sentence never answers a question that a later result has   *)
(* replaced.                                                               *)
(***************************************************************************)
AnswersLatestQuestion ==
  \A p \in Pages : pendingClarification[p] # Nothing =>
    /\ pendingClarification[p] = lastRun[p]
    /\ reply[lastRun[p]] = "question"

(***************************************************************************)
(* A page that waits for a result is enabled again, whatever the outcome.  *)
(***************************************************************************)
ButtonComesBack == \A p \in Pages : p \in busy ~> p \notin busy
-----------------------------------------------------------------------------
(***************************************************************************)
(* "Cleared. Try one more sentence." (elder.html): a question becomes      *)
(* pending when the response that asks it arrives, and once cleared does   *)
(* not come back. The code does not keep this: switching the language      *)
(* renders the last result again.                                          *)
(***************************************************************************)
ClearedStaysCleared ==
  [][\A p \in Pages :
       LET c == pendingClarification'[p]
       IN  c \notin {Nothing, pendingClarification[p]} => pageOf[c] = p
    ]_voiceVars
=============================================================================
