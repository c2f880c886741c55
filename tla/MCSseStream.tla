---------------------------- MODULE MCSseStream -----------------------------
(***************************************************************************)
(* SseStream for TLC.                                                      *)
(***************************************************************************)
EXTENDS SseStream

CONSTANTS owner, s1

Text(size) == [type |-> "text", payload |-> size]
File(raw, url, media) == [type |-> "file", raw |-> raw, url |-> url, media |-> media]

\* Messages with a part of every kind, alone and beside a text.
SomeParts ==
    {Text("small"), Text("large"), [type |-> "data", payload |-> "small"]}
        \union {File(raw, url, "other") : raw, url \in Sizes \union {Absent}}
        \union {File("small", Absent, media) : media \in Media}

SomeMessages ==
    {<<p>> : p \in SomeParts} \union {<<p, Text("small")>> : p \in SomeParts}

\* Updates that carry answer text, and a block that is not understood.
SomeBlocks == {Text("small"), [type |-> "unknown"]}
=============================================================================
