------------------------- MODULE MCClientTranscript -------------------------
(***************************************************************************)
(* ClientTranscript for TLC: a chat whose first turn holds an entry the    *)
(* client's decoder refuses, or none, and what happens to it: a rewind and *)
(* a lost stream, a failed read, an eviction, a page smaller than the chat.*)
(***************************************************************************)
EXTENDS ClientTranscript

Calm == [reverts |-> 0, breaks |-> 0, wakes |-> 0, fails |-> 0, sweeps |-> 0, olders |-> 0,
         wire |-> 2, page |-> 2, deltas |-> 1, bad |-> {}]
Undecoded == [Calm EXCEPT !.bad = {<<1, 2>>}]
Rewound == [Calm EXCEPT !.reverts = 1, !.breaks = 1, !.deltas = 2]
AllScenarios == {Rewound,
                 [Undecoded EXCEPT !.reverts = 1, !.breaks = 1],
                 [Calm EXCEPT !.wakes = 1, !.reverts = 1],
                 [Calm EXCEPT !.breaks = 1, !.fails = 1, !.deltas = 2],
                 [Undecoded EXCEPT !.breaks = 1, !.fails = 1],
                 [Calm EXCEPT !.sweeps = 1, !.reverts = 1, !.wire = 1],
                 [Undecoded EXCEPT !.breaks = 1, !.olders = 1, !.wire = 1, !.page = 1]}
=============================================================================
