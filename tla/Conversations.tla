---------------------------- MODULE Conversations ----------------------------
(***************************************************************************)
(* Conversations of agents with a model (internal/llm/conversation.go):    *)
(* the manager that finds or creates the conversation of an agent, the     *)
(* memory that keeps the newest messages and all system messages, and the  *)
(* helper that asks a question in a conversation.  Each method is atomic;  *)
(* what a caller does with a conversation takes several of them.           *)
(*                                                                         *)
(* A message is its number and its length in tokens.  The slice of a       *)
(* memory is kept as its system messages and its others: the two functions *)
(* that read it separate them first, each in its order.  Thoughts and      *)
(* metadata are left out.                                                  *)
(***************************************************************************)
EXTENDS Integers, Sequences, SequencesExt, FiniteSets

CONSTANTS
    Callers,       \* goroutines of one agent
    MaxConvs,      \* bound: conversations created
    MaxMessages,   \* maxMessages of a conversation
    MaxTokens,     \* maxTokens of a conversation
    Lengths,       \* lengths of messages, in tokens
    MaxAdded,      \* bound: messages added
    MaxSystem      \* bound: system messages added to a conversation

ConversationsAssumption ==
    MaxConvs \in Nat /\ MaxMessages \in Nat /\ MaxAdded \in Nat /\ MaxSystem \in Nat

VARIABLES
    messages,   \* the messages of each conversation, oldest first
    byName,     \* the conversation under the agent's name, 0 for none
    byId,       \* the conversations under their own id
    created,    \* conversations created so far
    call,       \* what each caller is doing
    added,      \* messages added so far
    raced       \* history: conversations created while another one was

vars == <<messages, byName, byId, created, call, added, raced>>

Convs == 1 .. MaxConvs
Idle == [op |-> "idle"]
Empty == [system |-> <<>>, others |-> <<>>]
Tokens(msgs) == FoldSeq(LAMBDA msg, sum : sum + msg.len, 0, msgs)
Numbers(msgs) == {msgs[i].n : i \in DOMAIN msgs}

TypeOK ==
    /\ \A v \in Convs : \A part \in {"system", "others"} : \A i \in DOMAIN messages[v][part] :
          messages[v][part][i].n \in 1 .. added /\ messages[v][part][i].len \in Lengths \cup {1}
    /\ byName \in 0 .. created /\ byId \subseteq 1 .. created
    /\ created \in 0 .. MaxConvs /\ added \in 0 .. MaxAdded

Init ==
    /\ messages = [v \in Convs |-> Empty]
    /\ byName = 0 /\ byId = {} /\ created = 0
    /\ call = [c \in Callers |-> Idle]
    /\ added = 0 /\ raced = {}

-----------------------------------------------------------------------------
(* The memory.                                                             *)

Newest(k, msgs) == SubSeq(msgs, IF Len(msgs) <= k THEN 1 ELSE Len(msgs) - k + 1, Len(msgs))

\* trimMessages: all system messages, and the newest of the others, at least one.
Trim(msgs) ==
    LET room == MaxMessages - Len(msgs.system)
    IN  [msgs EXCEPT !.others = Newest(IF room < 1 THEN 1 ELSE room, msgs.others)]

\* AddMessage.
AddTo(v, part, len) ==
    LET msg == [n |-> added + 1, len |-> len]
        msgs == [messages[v] EXCEPT ![part] = Append(messages[v][part], msg)]
    IN  /\ added < MaxAdded /\ added' = added + 1
        /\ messages' = [messages EXCEPT ![v] =
                           IF Len(msgs.system) + Len(msgs.others) > MaxMessages THEN Trim(msgs) ELSE msgs]

\* GetMessagesForPrompt: all system messages, then the longest run of newest
\* others that fits into the tokens left.
ForPrompt(msgs) ==
    LET fit == {k \in 0 .. Len(msgs.others) :
                  Tokens(Newest(k, msgs.others)) <= MaxTokens - Tokens(msgs.system)}
    IN  [msgs EXCEPT !.others =
            IF fit = {} THEN <<>> ELSE Newest(CHOOSE k \in fit : \A j \in fit : j <= k, msgs.others)]

AddSystemMessage(v) ==
    /\ v \in byId /\ Len(messages[v].system) < MaxSystem
    /\ AddTo(v, "system", 1)
    /\ UNCHANGED <<byName, byId, created, call, raced>>

\* Clear and Reset.
Clear(v) ==
    /\ v \in byId /\ messages[v] # Empty
    /\ messages' = [messages EXCEPT ![v] = Empty]
    /\ call' = [c \in Callers |-> IF call[c].op \in {"prompt", "wait"} /\ call[c].v = v
                                  THEN [call[c] EXCEPT !.cleared = TRUE] ELSE call[c]]
    /\ UNCHANGED <<byName, byId, created, added, raced>>

-----------------------------------------------------------------------------
(* The manager.                                                            *)

\* GetOrCreateConversation, under the read lock.
GetConversation(c) ==
    /\ call[c] = Idle
    /\ call' = [call EXCEPT ![c] = IF byName = 0 THEN [op |-> "create"] ELSE [op |-> "ask", v |-> byName]]
    /\ UNCHANGED <<messages, byName, byId, created, added, raced>>

\* CreateConversation, under the write lock and without another look.
CreateConversation(c) ==
    /\ call[c].op = "create" /\ created < MaxConvs
    /\ created' = created + 1
    /\ byName' = created + 1 /\ byId' = byId \cup {created + 1}
    /\ raced' = IF byName = 0 THEN raced ELSE raced \cup {byName}
    /\ call' = [call EXCEPT ![c] = [op |-> "ask", v |-> created + 1]]
    /\ UNCHANGED <<messages, added>>

\* RemoveConversation: the name goes too, whichever conversation it names.
RemoveConversation(v) ==
    /\ v \in byId
    /\ byId' = byId \ {v} /\ byName' = 0
    /\ raced' = (raced \ {v}) \cup (IF byName \in {0, v} THEN {} ELSE {byName})
    /\ UNCHANGED <<messages, created, call, added>>

-----------------------------------------------------------------------------
(* CompleteWithConversation.                                               *)

AddUserMessage(c) ==
    /\ call[c].op = "ask"
    /\ \E len \in Lengths :
          /\ AddTo(call[c].v, "others", len)
          /\ call' = [call EXCEPT ![c] = [op |-> "prompt", v |-> call[c].v, q |-> added + 1,
                                          cleared |-> FALSE]]
    /\ UNCHANGED <<byName, byId, created, raced>>

\* since: history, the question and what was added after it.
SendPrompt(c) ==
    /\ call[c].op = "prompt"
    /\ LET msgs == messages[call[c].v]
           since == {i \in DOMAIN msgs.others : msgs.others[i].n >= call[c].q}
       IN  call' = [call EXCEPT ![c] =
                      [op |-> "wait", v |-> call[c].v, q |-> call[c].q, cleared |-> call[c].cleared,
                       prompt |-> ForPrompt(msgs), since |-> Newest(Cardinality(since), msgs.others)]]
    /\ UNCHANGED <<messages, byName, byId, created, added, raced>>

\* The model answers, or fails and leaves the question unanswered.
AddAssistantMessage(c) ==
    /\ call[c].op = "wait"
    /\ \/ \E len \in Lengths : AddTo(call[c].v, "others", len)
       \/ UNCHANGED <<messages, added>>
    /\ call' = [call EXCEPT ![c] = Idle]
    /\ UNCHANGED <<byName, byId, created, raced>>

Next ==
    \/ \E c \in Callers :
          \/ GetConversation(c) \/ CreateConversation(c)
          \/ AddUserMessage(c) \/ SendPrompt(c) \/ AddAssistantMessage(c)
    \/ \E v \in Convs : AddSystemMessage(v) \/ Clear(v) \/ RemoveConversation(v)

Spec == Init /\ [][Next]_vars

-----------------------------------------------------------------------------
(* Properties.                                                             *)

\* A question is in the prompt it is asked with, unless the conversation was
\* cleared meanwhile, it does not fit together with what is newer, or so many
\* messages were added since that it was trimmed: there is room for as many
\* others as the system messages leave, and at least for one
\* (AddMessage, trimMessages, GetMessagesForPrompt).
QuestionInPrompt ==
    \A c \in Callers :
        (call[c].op = "wait" /\ ~ call[c].cleared /\ call[c].q \notin Numbers(call[c].prompt.others)) =>
            LET system == call[c].prompt.system
                since == call[c].since
            IN  IF call[c].q \in Numbers(since) THEN ~ (Tokens(since) <= MaxTokens - Tokens(system))
                ELSE Len(since) + 1 > MaxMessages - Len(system)

\* A prompt exceeds the token limit only by system messages, and then it has no
\* others (GetMessagesForPrompt).
PromptFits ==
    \A c \in Callers :
        call[c].op = "wait" =>
            LET prompt == call[c].prompt
            IN  prompt.others = <<>> \/ Tokens(prompt.others) <= MaxTokens - Tokens(prompt.system)

\* A conversation loses its system messages only when it is cleared, and its
\* other messages from the oldest on (trimMessages).
TrimsOldestFirst ==
    [][\A v \in Convs :
          messages'[v] # Empty =>
             /\ Numbers(messages[v].system) \subseteq Numbers(messages'[v].system)
             /\ \A i, j \in DOMAIN messages[v].others :
                   (i < j /\ messages[v].others[i].n \in Numbers(messages'[v].others)) =>
                         messages[v].others[j].n \in Numbers(messages'[v].others)]_vars

\* The conversations the manager lists are the one under the agent's name, and
\* those another one displaced because two callers created one at a time
\* (GetOrCreateConversation, RemoveConversation).
NoneIsHidden == byId \ {byName} \subseteq raced
=============================================================================
