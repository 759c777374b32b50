------------------------------ MODULE Terminals ------------------------------
(***************************************************************************)
(* A workspace terminal: a PTY on the Node that outlives the control       *)
(* channel, its replay buffer, and the viewers that watch it through Core. *)
(*                                                                         *)
(* Frames of both directions travel in order over one control connection   *)
(* and are lost with it.  The task of the terminal numbers its output,     *)
(* records it for replay, then sends it; an attach may come in between.    *)
(***************************************************************************)
EXTENDS Naturals, Sequences

CONSTANTS
    Viewers,        \* terminal streams
    Retained,       \* MAX_WORKSPACE_TERMINAL_REPLAY_FRAMES and _BYTES
    MaxOutput,      \* bound: pieces of output
    MaxBreaks,      \* bound: broken connections, Core restarts, lagging viewers
    MaxFrames       \* bound: frames in flight when another one is caused

VARIABLES
    pty,        \* Node: the handle of the terminal and its task
    seq,        \* Node: the number of the last output
    unsent,     \* Node: it is recorded, and still to be sent
    replay,     \* Node: the retained numbers
    route,      \* Node: the sender route is bound to a live connection
    toNode,     \* frames on their way to the Node
    toCore,     \* frames on their way to Core
    listed,     \* Core: the state in workspace_terminals, or a request to open
    view,       \* Core: the streams, what each passed on and reported
    breaks      \* history: breaks so far

termVars == <<pty, seq, unsent, replay, route, toNode, toCore, listed, view, breaks>>

Closed == [at |-> "closed", seen |-> {}, told |-> FALSE, cut |-> FALSE]

TermInit ==
    /\ pty = "none" /\ seq = 0 /\ unsent = FALSE /\ replay = <<>>
    /\ route = TRUE /\ toNode = <<>> /\ toCore = <<>>
    /\ listed = "opening"
    /\ view = [v \in Viewers |-> Closed]
    /\ breaks = 0

Status(s) == [kind |-> "status", value |-> s]
Output(n) == [kind |-> "output", value |-> n]
(* send_terminal_frame: nothing is sent while the route is not bound.      *)
Sent(frames) == toCore' = IF route THEN toCore \o frames ELSE toCore
Break == breaks < MaxBreaks /\ breaks' = breaks + 1

-----------------------------------------------------------------------------
(* The Node.                                                               *)

open ==
    /\ pty = "none" /\ route
    /\ pty' = "running"
    /\ Sent(<<Status("running")>>)
    /\ UNCHANGED <<seq, unsent, replay, route, toNode, listed, view, breaks>>

(* record_terminal_replay drops the oldest output.                         *)
record_terminal_replay(n) ==
    LET all == Append(replay, n)
    IN  IF Len(all) > Retained THEN Tail(all) ELSE all

Produce ==
    /\ pty = "running" /\ ~unsent /\ seq < MaxOutput
    /\ seq' = seq + 1 /\ unsent' = TRUE
    /\ replay' = record_terminal_replay(seq + 1)
    /\ UNCHANGED <<pty, route, toNode, toCore, listed, view, breaks>>

SendOutput ==
    /\ unsent /\ unsent' = FALSE
    /\ Sent(<<Output(seq)>>)
    /\ UNCHANGED <<pty, seq, replay, route, toNode, listed, view, breaks>>

(* The shell exits; the handle and its replay stay.                        *)
Exit ==
    /\ pty = "running" /\ ~unsent
    /\ pty' = "exited"
    /\ Sent(<<Status("exited")>>)
    /\ UNCHANGED <<seq, unsent, replay, route, toNode, listed, view, breaks>>

(* Wrong variant: an attach does not say that output is missing.           *)
AttachQuietly == [i \in DOMAIN replay |-> Output(replay[i])]

(* WorkspaceTerminalManager::attach.                                       *)
attach ==
    (IF replay # <<>> /\ Head(replay) > 1 THEN <<Status("detached")>> ELSE <<>>)
      \o [i \in DOMAIN replay |-> Output(replay[i])]

ReceiveAttach ==
    /\ toNode # <<>> /\ Head(toNode) = "attach" /\ toNode' = Tail(toNode)
    /\ Len(toCore) < MaxFrames
    /\ Sent(IF pty \in {"running", "exited"} THEN attach ELSE <<Status("error")>>)
    /\ UNCHANGED <<pty, seq, unsent, replay, route, listed, view, breaks>>

(* close: the handle goes, the task kills the shell and reports it.        *)
ReceiveClose ==
    /\ toNode # <<>> /\ Head(toNode) = "close" /\ toNode' = Tail(toNode)
    /\ ~unsent
    /\ pty' = IF pty \in {"running", "exited"} THEN "closed" ELSE pty
    /\ Sent(IF pty = "running" THEN <<Status("closed")>> ELSE <<>>)
    /\ replay' = <<>>
    /\ UNCHANGED <<seq, unsent, route, listed, view, breaks>>

-----------------------------------------------------------------------------
(* Core.                                                                   *)

(* workspace_terminal_open_with_correlation, once the result has come.     *)
List ==
    /\ listed = "opening" /\ pty # "none"
    /\ listed' = "running"
    /\ UNCHANGED <<pty, seq, unsent, replay, route, toNode, toCore, view, breaks>>

(* ensure_terminal_belongs_to_placement, validate_terminal_owner.          *)
Listed == listed \notin {"none", "opening"}

(* handle_workspace_terminal_stream subscribes first, then asks the Node.  *)
Subscribe(v) ==
    /\ view[v].at = "closed" /\ Listed
    /\ view' = [view EXCEPT ![v] = [Closed EXCEPT !.at = "subscribed"]]
    /\ UNCHANGED <<pty, seq, unsent, replay, route, toNode, toCore, listed, breaks>>

Ask(v) ==
    /\ view[v].at = "subscribed" /\ Len(toNode) < MaxFrames
    /\ IF route
         THEN toNode' = Append(toNode, "attach") /\ view' = [view EXCEPT ![v].at = "open"]
         ELSE view' = [view EXCEPT ![v] = Closed] /\ UNCHANGED toNode
    /\ UNCHANGED <<pty, seq, unsent, replay, route, toCore, listed, breaks>>

(* handle_terminal_client_frame: close, when the connection is there.      *)
AskClose(v) ==
    /\ view[v].at = "open" /\ Len(toNode) < MaxFrames
    /\ IF route THEN toNode' = Append(toNode, "close") /\ UNCHANGED view
       ELSE view' = [view EXCEPT ![v] = Closed] /\ UNCHANGED toNode
    /\ UNCHANGED <<pty, seq, unsent, replay, route, toCore, listed, breaks>>

Leave(v) ==
    /\ view[v].at # "closed"
    /\ view' = [view EXCEPT ![v] = Closed]
    /\ UNCHANGED <<pty, seq, unsent, replay, route, toNode, toCore, listed, breaks>>

(* terminal_notice_to_stream_frame: the frame reaches every subscriber.    *)
Passed(f, w) ==
    IF w.at = "closed" THEN w
    ELSE IF f.kind = "output" THEN [w EXCEPT !.seen = @ \cup {f.value}]
    ELSE [w EXCEPT !.told = @ \/ f.value # "running"]

(* A frame of a terminal that is not listed is refused.  A viewer that     *)
(* lags behind the hub is told so.                                         *)
ReceiveFrame(lagging) ==
    /\ toCore # <<>> /\ toCore' = Tail(toCore)
    /\ IF lagging = {} THEN UNCHANGED breaks ELSE Listed /\ Break
    /\ \A v \in lagging : view[v].at # "closed"
    /\ IF ~Listed THEN UNCHANGED <<listed, view>>
       ELSE LET f == Head(toCore)
            IN  /\ listed' = IF f.kind = "status" THEN f.value ELSE listed
                /\ view' = [v \in Viewers |->
                       IF v \in lagging THEN [view[v] EXCEPT !.told = TRUE]
                       ELSE Passed(f, view[v])]
    /\ UNCHANGED <<pty, seq, unsent, replay, route, toNode>>

-----------------------------------------------------------------------------
(* detach_sender; frames under way are gone, streams stay open.            *)
Disconnect ==
    /\ route /\ Break
    /\ route' = FALSE
    /\ toNode' = <<>> /\ toCore' = <<>>
    /\ view' = [v \in Viewers |-> [view[v] EXCEPT !.cut = (@ \/ view[v].at = "open")]]
    /\ UNCHANGED <<pty, seq, unsent, replay, listed>>

(* Core restarts: workspace_terminals and the hub were in memory.          *)
CoreRestart ==
    /\ route /\ Break
    /\ route' = FALSE
    /\ toNode' = <<>> /\ toCore' = <<>>
    /\ listed' = "none"
    /\ view' = [v \in Viewers |-> Closed]
    /\ UNCHANGED <<pty, seq, unsent, replay>>

(* rebind_sender.                                                          *)
Rebind ==
    /\ ~route /\ route' = TRUE
    /\ UNCHANGED <<pty, seq, unsent, replay, toNode, toCore, listed, view, breaks>>

-----------------------------------------------------------------------------
TermNext ==
    \/ open \/ Produce \/ SendOutput \/ Exit \/ ReceiveAttach \/ ReceiveClose
    \/ List
    \/ \E v \in Viewers : Subscribe(v) \/ Ask(v) \/ AskClose(v) \/ Leave(v)
    \/ \E lagging \in SUBSET Viewers : ReceiveFrame(lagging)
    \/ Disconnect \/ CoreRestart \/ Rebind

TermSpec == TermInit /\ [][TermNext]_termVars

-----------------------------------------------------------------------------
(* When nothing is under way, a viewer whose connection held has passed on *)
(* all output of the terminal, from before it came and after, or was told  *)
(* that some is missing: attach, live output and the loss of old frames    *)
(* leave no silent hole (handle_workspace_terminal_stream subscribes       *)
(* before it attaches, the task records before it sends).                  *)
AllOrTold ==
    (toNode = <<>> /\ toCore = <<>> /\ ~unsent) =>
        \A v \in Viewers : (view[v].at = "open" /\ ~view[v].cut /\ ~view[v].told)
                               => view[v].seen = 1 .. seq
=============================================================================
