--------------------------- MODULE MessageRouting ---------------------------
(***************************************************************************)
(* The message bus and who uses it: channels publish inbound messages, one *)
(* consumer (AgentLoop.run) takes a turn for each in order, one dispatcher *)
(* (ChannelManager._dispatch_outbound) sends what turns publish, subagents *)
(* announce their results as inbound messages of the channel "system".     *)
(* Cron jobs, the heartbeat and RPC calls take turns of the same AgentLoop *)
(* beside the consumer (process_direct).                                   *)
(*                                                                         *)
(* The chat that the message, spawn and cron tools work for is a field of  *)
(* the tools, set when a turn begins.  What a turn says is left out; a     *)
(* message is known by where it came from and goes.                        *)
(***************************************************************************)
EXTENDS Naturals, Sequences

CONSTANTS
    Chats,          \* chats of the enabled channels
    Messages,       \* what users send,
    Home,           \* and the chat each is sent in
    Directs,        \* turns beside the consumer, each taken once
    Helpers,        \* subagents
    System, Cli     \* channels no plugin serves

ASSUME RoutingAssumption ==
    /\ System # Cli /\ {System, Cli} \cap Chats = {}
    /\ Home \in [Messages -> Chats]
    /\ Messages \cap Helpers = {} /\ Directs \cap (Messages \cup Helpers) = {}
    /\ "bus" \notin Directs /\ "nobody" \notin Messages

VARIABLES
    inbound, outbound,  \* the queues of MessageBus
    turn,               \* the turns: the consumer's is turn[Bus]
    toolChat,           \* the chat the tools have been set to
    helper,             \* the subagents
    sending,            \* what the dispatcher has taken, in a sequence of one
    (* history *)
    sent,               \* messages users have sent
    offered,            \* the replies plugin.send has been called with
    silenced,           \* messages whose reply a hook cancelled
    failedNews,         \* subagents whose announcement ended in an error
    crossed             \* turns that another turn overlapped

routingVars == <<inbound, outbound, turn, toolChat, helper, sending, sent,
                 offered, silenced, failedNews, crossed>>

Bus == "bus"
Turns == Directs \cup {Bus}
Places == Chats \cup {System, Cli}
Nobody == "nobody"

\* What a turn is about, and what an outbound message comes from.
Subjects == Messages \cup Directs \cup Helpers
NoTurn == [on |-> FALSE, chat |-> Cli, about |-> Nobody, used |-> FALSE]
Over(t) == [turn[t] EXCEPT !.on = FALSE, !.used = FALSE]
NoHelper == [at |-> "none", origin |-> Cli]

RoutingTypeOK ==
    /\ \A k \in 1..Len(inbound) :
          inbound[k] \in [chat: Places, about: Messages \cup Helpers]
    /\ \A k \in 1..Len(outbound) : outbound[k] \in [to: Places, about: Subjects, reply: BOOLEAN]
    /\ turn \in [Turns -> [on: BOOLEAN, chat: Places, about: Subjects \cup {Nobody},
                           used: BOOLEAN]]
    /\ toolChat \in Places
    /\ helper \in [Helpers -> [at: {"none", "working", "announced"}, origin: Places]]
    /\ Len(sending) <= 1
    /\ sent \in SUBSET Messages
    /\ offered \in SUBSET [to: Chats, about: Messages \cup Helpers]
    /\ silenced \in SUBSET Messages
    /\ failedNews \in SUBSET Helpers
    /\ crossed \in SUBSET Turns

RoutingInit ==
    /\ inbound = <<>> /\ outbound = <<>> /\ sending = <<>>
    /\ turn = [t \in Turns |-> NoTurn]
    /\ toolChat = Cli
    /\ helper = [h \in Helpers |-> NoHelper]
    /\ sent = {} /\ offered = {} /\ silenced = {} /\ failedNews = {} /\ crossed = {}

bus == <<inbound, outbound>>
dispatch == <<sending, offered>>

Publish(to, about, reply) ==
    outbound' = Append(outbound, [to |-> to, about |-> about, reply |-> reply])

----------------------------------------------------------------------------
(* Channels.                                                               *)

\* _publish_inbound, for a sender on the allow list.
Receive(m) ==
    /\ m \notin sent
    /\ sent' = sent \cup {m}
    /\ inbound' = Append(inbound, [chat |-> Home[m], about |-> m])
    /\ UNCHANGED <<outbound, turn, toolChat, helper, dispatch, silenced, failedNews, crossed>>

DispatcherTakes ==
    /\ sending = <<>> /\ outbound # <<>>
    /\ sending' = <<Head(outbound)>>
    /\ outbound' = Tail(outbound)
    /\ UNCHANGED <<inbound, turn, toolChat, helper, sent, offered, silenced,
                   failedNews, crossed>>

\* plugin.send, whose failure is logged; a channel nobody serves is dropped.
DispatcherSends ==
    /\ sending # <<>>
    /\ sending' = <<>>
    /\ LET o == sending[1]
       IN  offered' = IF o.to \in Chats /\ o.reply /\ o.about \notin Directs
                      THEN offered \cup {[to |-> o.to, about |-> o.about]} ELSE offered
    /\ UNCHANGED <<bus, turn, toolChat, helper, sent, silenced, failedNews, crossed>>

----------------------------------------------------------------------------
(* Turns.                                                                  *)

\* The chat of a message; an announcement has its origin as its chat.
Crossing(t) == LET others == {u \in Turns \ {t} : turn[u].on}
               IN  IF others = {} THEN crossed \ {t} ELSE crossed \cup others \cup {t}

Begin_MutContext(t, chat, about) ==
    /\ turn' = [turn EXCEPT ![t] = [on |-> TRUE, chat |-> chat, about |-> about,
                                    used |-> FALSE]]
    /\ crossed' = Crossing(t)
    /\ UNCHANGED toolChat

\* _set_tool_context at the start of _process_message.
Begin(t, chat, about) ==
    /\ turn' = [turn EXCEPT ![t] = [on |-> TRUE, chat |-> chat, about |-> about,
                                    used |-> FALSE]]
    /\ toolChat' = chat
    /\ crossed' = Crossing(t)

\* A direct turn is taken once, so its record stays.
End(t) == turn' = [turn EXCEPT ![t] = IF t = Bus THEN NoTurn ELSE Over(t)]

\* AgentLoop.run
Consume ==
    /\ ~turn[Bus].on /\ inbound # <<>>
    /\ Begin(Bus, Head(inbound).chat, Head(inbound).about)
    /\ inbound' = Tail(inbound)
    /\ UNCHANGED <<outbound, helper, dispatch, sent, silenced, failedNews>>

\* process_direct
StartDirect(d, c) ==
    /\ turn[d] = NoTurn
    /\ Begin(d, c, d)
    /\ UNCHANGED <<bus, helper, dispatch, sent, silenced, failedNews>>

\* The message tool, used once in a turn here, sends to the tools' chat.
MessageTool(t) ==
    /\ turn[t].on /\ ~turn[t].used /\ turn[t].about \notin Helpers
    /\ Publish(toolChat, turn[t].about, FALSE)
    /\ turn' = [turn EXCEPT ![t].used = TRUE]
    /\ UNCHANGED <<inbound, toolChat, helper, dispatch, sent, silenced, failedNews, crossed>>

\* The spawn tool: the origin of the subagent is the tools' chat.
Spawn(t, h) ==
    /\ turn[t].on /\ ~turn[t].used /\ helper[h].at = "none"
    /\ helper' = [helper EXCEPT ![h] =
          [at |-> "working", origin |-> toolChat]]
    /\ turn' = [turn EXCEPT ![t].used = TRUE]
    /\ UNCHANGED <<bus, toolChat, dispatch, sent, silenced, failedNews, crossed>>

\* _announce_result, whether the subagent succeeded or not.
Announce_MutFallback(h) ==
    /\ helper[h].at = "working"
    /\ helper' = [helper EXCEPT ![h].at = "announced"]
    /\ inbound' = Append(inbound, [chat |-> Cli, about |-> h])
    /\ UNCHANGED <<outbound, turn, toolChat, dispatch, sent, silenced, failedNews, crossed>>

Announce(h) ==
    /\ helper[h].at = "working"
    /\ helper' = [helper EXCEPT ![h].at = "announced"]
    /\ inbound' = Append(inbound, [chat |-> helper[h].origin, about |-> h])
    /\ UNCHANGED <<outbound, turn, toolChat, dispatch, sent, silenced, failedNews, crossed>>

Answered ==
    /\ turn[Bus].on
    /\ Publish(turn[Bus].chat, turn[Bus].about, TRUE)
    /\ End(Bus)
    /\ UNCHANGED <<inbound, toolChat, helper, dispatch, sent, silenced, failedNews, crossed>>

\* A message_sending hook cancels the reply to a user.
Cancelled ==
    /\ turn[Bus].on /\ turn[Bus].about \in Messages
    /\ silenced' = silenced \cup {turn[Bus].about}
    /\ End(Bus)
    /\ UNCHANGED <<bus, toolChat, helper, dispatch, sent, failedNews, crossed>>

\* A turn that raises is apologised for on the message's channel, which is
\* "system" for an announcement.
Failed ==
    /\ turn[Bus].on
    /\ IF turn[Bus].about \in Helpers
       THEN /\ Publish(System, turn[Bus].about, TRUE)
            /\ failedNews' = failedNews \cup {turn[Bus].about}
       ELSE /\ Publish(turn[Bus].chat, turn[Bus].about, TRUE)
            /\ UNCHANGED failedNews
    /\ End(Bus)
    /\ UNCHANGED <<inbound, toolChat, helper, dispatch, sent, silenced, crossed>>

\* The answer of a direct turn goes to its caller; a cron job may deliver it.
EndDirect(d) ==
    /\ turn[d].on
    /\ Publish(turn[d].chat, d, TRUE) \/ UNCHANGED outbound
    /\ End(d)
    /\ UNCHANGED <<inbound, toolChat, helper, dispatch, sent, silenced, failedNews, crossed>>

Dispatch == DispatcherTakes \/ DispatcherSends
FinishTurn == Answered \/ Cancelled \/ Failed

RoutingNext ==
    \/ \E m \in Messages : Receive(m)
    \/ Dispatch \/ Consume
    \/ \E d \in Directs, c \in Chats \cup {Cli} : StartDirect(d, c)
    \/ \E t \in Turns : MessageTool(t)
    \/ \E t \in Turns, h \in Helpers : Spawn(t, h)
    \/ \E h \in Helpers : Announce(h)
    \/ FinishTurn
    \/ \E d \in Directs : EndDirect(d)

\* Sends and turns end, and the loops come round.
RoutingFairness ==
    /\ WF_routingVars(Dispatch) /\ WF_routingVars(Consume)
    /\ WF_routingVars(FinishTurn)
    /\ \A h \in Helpers : WF_routingVars(Announce(h))

RoutingSpec == RoutingInit /\ [][RoutingNext]_routingVars
RoutingFairSpec == RoutingSpec /\ RoutingFairness

----------------------------------------------------------------------------
(* Properties.                                                             *)

\* What a turn sends with the message tool, and what its subagent reports,
\* goes to the turn's own chat, unless turns overlapped and the tools had been
\* set to another one's.
ToolsServeTheirTurn ==
    /\ \A t \in Turns : turn[t].on /\ t \notin crossed => toolChat = turn[t].chat
    /\ \A k \in 1..Len(outbound) :
          outbound[k].about \in Messages /\ outbound[k].reply =>
              outbound[k].to = Home[outbound[k].about]

\* Every message a user sent is answered in its chat, if only by an apology,
\* unless a hook cancelled the reply.
EveryMessageIsAnswered ==
    \A m \in Messages :
        m \in sent ~> m \in silenced \/ [to |-> Home[m], about |-> m] \in offered

\* A subagent is heard of in the chat it was spawned for, unless the turn
\* that was to report it failed.
EveryHelperIsHeard ==
    \A h \in Helpers :
        helper[h].at = "working" /\ helper[h].origin \in Chats ~>
            \/ h \in failedNews
            \/ [to |-> helper[h].origin, about |-> h] \in offered

\* Whoever waits for something hears of it: the two above, of one consumer and
\* one dispatcher (agent/loop.py:873-919, channels/manager.py:171-203).
EveryoneHears == EveryMessageIsAnswered /\ EveryHelperIsHeard

=============================================================================
