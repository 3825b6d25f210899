------------------------------ MODULE MCInputs ------------------------------
(***************************************************************************)
(* Inputs for TLC that more than one MC module gives a component.          *)
(***************************************************************************)
EXTENDS Naturals, Sequences, SequencesExt

(* SplitWal: either log rolls after two records.                           *)
MCSegmentRecords == [main |-> 2, late |-> 2]

(* FileTail: one path, which one source claims.                            *)
MCMatches == [p |-> <<"s">>]

-----------------------------------------------------------------------------
(* HttpServer: requests at, under and over each limit.                     *)
MCPlain == [head |-> 1, body |-> 1, inflated |-> 1, framing |-> "length", refused |-> FALSE, streamed |-> FALSE]
MCRequests ==
    {MCPlain,
     [MCPlain EXCEPT !.head = 4],
     [MCPlain EXCEPT !.head = 2, !.refused = TRUE],
     [MCPlain EXCEPT !.body = 2, !.framing = "chunked"],
     [MCPlain EXCEPT !.framing = "both"], [MCPlain EXCEPT !.framing = "other"],
     [MCPlain EXCEPT !.inflated = 3],
     [MCPlain EXCEPT !.body = 2],
     [MCPlain EXCEPT !.body = 2, !.streamed = TRUE]}

(* What two clients send beside each other.                                *)
MCContended == {MCPlain, [MCPlain EXCEPT !.head = 2, !.refused = TRUE], [MCPlain EXCEPT !.inflated = 3],
                [MCPlain EXCEPT !.body = 2, !.framing = "chunked"], [MCPlain EXCEPT !.body = 2, !.streamed = TRUE]}

-----------------------------------------------------------------------------
(* OtlpGrpc.                                                               *)

(* A message in two frames, one of them padded; one over the limit; one    *)
(* whose header block takes two frames and whose message is cut short.     *)
MCExports == {
    [blocks |-> 1, message |-> 2, data |-> <<[len |-> 1, pad |-> 1], [len |-> 1, pad |-> 0]>>],
    [blocks |-> 1, message |-> 4, data |-> <<[len |-> 2, pad |-> 0], [len |-> 2, pad |-> 0]>>],
    [blocks |-> 2, message |-> 2, data |-> <<[len |-> 1, pad |-> 0]>>]}

-----------------------------------------------------------------------------
(* Sentry.                                                                 *)

(* Two envelopes of one trace, of which one is drawn, to two projects.     *)
MCSdkEnvelopes == {
    [id |-> 1, trace |-> "t", items |-> {"event", "transaction", "attachment"}, project |-> "p"],
    [id |-> 2, trace |-> "t", items |-> {"transaction", "profile"}, project |-> "q"]}

-----------------------------------------------------------------------------
(* FileTail: the patterns.                                                 *)

Pieces == {<<"*">>, <<"?">>, <<"a">>, <<"b">>, <<"[", "a", "]">>, <<"[", "!", "a", "]">>, <<"[", "a", "-", "b", "]">>, <<"[", "b">>}
MCComponents == {<<>>} \cup Pieces \cup {p \o q : p, q \in Pieces} \cup {p \o q \o r : p, q, r \in Pieces}
MCFewComponents == {<<"*">>} \cup {p \o q : p, q \in {<<"*">>, <<"a">>, <<"?">>}}
MCFewNames == SeqOf({"a", "b"}, 2)
MCGlobNames == SeqOf({"a", "b", "c"}, 3)
MCRank == [c \in {"a", "b", "c", "-", "!", "*", "?", "[", "]"} |->
            CASE c = "a" -> 1 [] c = "b" -> 2 [] c = "c" -> 3 [] OTHER -> 0]

A == <<"a">>
B == <<"b">>
TreeEntry(kind, path) == [path |-> path, kind |-> kind]
MCTrees ==
    {{TreeEntry("file", <<A>>)},
     {TreeEntry("dir", <<A>>), TreeEntry("file", <<A, A>>), TreeEntry("file", <<A, B>>), TreeEntry("file", <<B>>)},
     {TreeEntry("dir", <<A>>), TreeEntry("dir", <<A, B>>), TreeEntry("file", <<A, B, A>>), TreeEntry("file", <<A, A>>), TreeEntry("link", <<B>>)}}
PathParts == {A, B, <<"*">>, <<"?">>, <<"*", "*">>}
MCPathPatterns == SeqOf(PathParts, 3) \ {<<>>}
=============================================================================
