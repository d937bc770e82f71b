------------------------------- MODULE MCLive -------------------------------
(***************************************************************************)
(* Users who are online: the connections and subscriptions of the realtime *)
(* server, the way of a request through the gateway or the realtime server *)
(* to the services, friend requests, calls and meetings with their rooms.  *)
(* They share no state, so a behaviour exercises one of them, chosen at    *)
(* the start, and the others stand still.                                  *)
(***************************************************************************)
EXTENDS Realtime, RequestPath, Friendship, RtcCall

VARIABLE side    \* what is exercised

liveVars == <<vars, requestVars, friendVars, rtcVars, side>>

\* While something else is exercised, one direct request is left waiting.
LiveInit ==
    /\ Init /\ RequestInit /\ FriendInit /\ RtcInit
    /\ side \in {"connections", "request", "friends", "calls", "meetings"}
    /\ side # "request" => op = "SendPush" /\ fields

\* Connections are alike, and so are the ids of friend requests: the next one to
\* be used is the first of those that are not.
InOrder ==
    /\ \A c \in Conn : pc'[c] # "new" => \A d \in 1..(c - 1) : pc'[d] # "new"
    /\ \A c \in Call, r \in Req : rq'[c] = r /\ rq[c] # r /\ status[r] = "none" =>
          \A s \in 1..(r - 1) : status[s] # "none" \/ \E d \in Call : rq[d] = s

LiveNext ==
    /\ UNCHANGED side
    /\ \/ /\ side = "connections"
          /\ Next
          /\ UNCHANGED <<requestVars, friendVars, rtcVars>>
       \/ /\ side = "request"
          /\ RequestNext
          /\ UNCHANGED <<vars, friendVars, rtcVars>>
       \/ /\ side = "friends"
          /\ FriendNext
          /\ UNCHANGED <<vars, requestVars, rtcVars>>
       \/ /\ side = "calls"
          /\ RtcNext /\ \A m \in MeetingId : room'[m] = "none"
          /\ UNCHANGED <<vars, requestVars, friendVars>>
       \/ /\ side = "meetings"
          /\ RtcNext /\ \A c \in CallId : room'[c] = "none"
          /\ UNCHANGED <<vars, requestVars, friendVars>>
    /\ InOrder

\* Each component's own fairness, for what is exercised.
LiveSpec ==
    /\ LiveInit /\ [][LiveNext]_liveVars
    /\ \A c \in Conn : /\ WF_vars(side = "connections" /\ Handler(c))
                       /\ WF_vars(side = "connections" /\ WritePump(c))
                       /\ WF_vars(side = "connections" /\ Callback(c))
    /\ WF_requestVars(side = "request" /\ Servers)
    /\ \A c \in Call : WF_friendVars(side = "friends" /\ Work(c))
    /\ \A h \in RtcHandler : WF_rtcVars(side \in {"calls", "meetings"} /\ Serve(h))
    /\ \A i \in Id : WF_rtcVars(side \in {"calls", "meetings"} /\ DeleteRoom(i))
=============================================================================
