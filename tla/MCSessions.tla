----------------------------- MODULE MCSessions ------------------------------
(* Sessions, SessionStream, Terminals and Deductions for TLC: what a client *)
(* of Core is shown.  They share no state, so one run explores each of them *)
(* with the others at rest.                                                 *)
EXTENDS Sessions

CONSTANTS Followers, MaxEvents, MaxOpens, Capacity
VARIABLES clocks, rows, task, cursor, drain, stream, opens, overtaken
Stream == INSTANCE SessionStream
follow == <<clocks, rows, task, cursor, drain, stream, opens, overtaken>>

(* broadcast::channel refuses a capacity of zero.                          *)
ASSUME StreamAssumption ==
    Capacity \in Nat \ {0} /\ {"ingest", "acknowledge", "nobody"} \cap Followers = {}

CONSTANTS Viewers, Retained, MaxOutput, MaxBreaks, MaxFrames
VARIABLES pty, seq, unsent, replay, route, toNode, toCore, listed, view, breaks
Terminal == INSTANCE Terminals
terminal == <<pty, seq, unsent, replay, route, toNode, toCore, listed, view, breaks>>

(* The replay keeps something of the output.                               *)
ASSUME ReplayAssumption == Retained \in Nat \ {0}

CONSTANTS Deductions, MaxReplies, MaxVersions
VARIABLES row, other, said, versions, asks, cmd, marking, recv, toRun, replies, worker, cuts
Deduce == INSTANCE Deductions WITH toNode <- toRun, node <- worker, breaks <- cuts
deduce == <<row, other, said, versions, asks, cmd, marking, recv, toRun, replies, worker, cuts>>

MCInit == Init /\ Stream!StreamInit /\ Terminal!TermInit /\ Deduce!DedInit
MCNext ==
    \/ /\ Stream!StreamInit /\ Terminal!TermInit /\ Deduce!DedInit
       /\ Next /\ UNCHANGED <<follow, terminal, deduce>>
    \/ /\ Init /\ Terminal!TermInit /\ Deduce!DedInit
       /\ Stream!StreamNext /\ UNCHANGED <<vars, terminal, deduce>>
    \/ /\ Init /\ Stream!StreamInit /\ Deduce!DedInit
       /\ Terminal!TermNext /\ UNCHANGED <<vars, follow, deduce>>
    \/ /\ Init /\ Stream!StreamInit /\ Terminal!TermInit
       /\ Deduce!DedNext /\ UNCHANGED <<vars, follow, terminal>>
MCSpec == MCInit /\ [][MCNext]_<<vars, follow, terminal, deduce>>

(* Sessions' EndedTurnsStay and Deductions' EndedDeductionsStay, of every  *)
(* step: a turn or a deduction that ended, or an approval that was         *)
(* answered, stays so, whatever event or result comes late or again        *)
(* (accept_node_event, project_deduction_command_result).                  *)
EndedStay ==
    [][EndedTurnsStay /\ Deduce!EndedDeductionsStay]_<<vars, follow, terminal, deduce>>

(* SessionStream's StreamComplete: an open stream that did not lag has     *)
(* passed on every stored event that no later cursor overtook              *)
(* (session_stream, drain_event_publication_outbox).                       *)
StreamComplete == Stream!StreamComplete

(* Terminals' AllOrTold: a viewer whose connection held has passed on all  *)
(* output of the terminal, or was told that some is missing                *)
(* (handle_workspace_terminal_stream, WorkspaceTerminalManager::attach).   *)
AllOrTold == Terminal!AllOrTold
=============================================================================
