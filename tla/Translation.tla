---------------------------- MODULE Translation -----------------------------
(***************************************************************************)
(* The parts of A2A messages and the content blocks of ACP, and what is    *)
(* made of one in the other protocol.  A payload (a text, bytes, a JSON    *)
(* value, an address) is known by its size: within the limit or over it.   *)
(* A media type is known by its family, the names of files not at all.     *)
(***************************************************************************)
EXTENDS Sifting

Sizes == {"small", "large"}
Media == {"image", "audio", "other"}
Absent == "absent"

\* Part: a text, a JSON value, or a file given by content or by address; the
\* wire format also admits both or neither.
Part ==
    [type : {"text", "data"}, payload : Sizes]
        \union [type : {"file"}, raw : Sizes \union {Absent},
                url : Sizes \union {Absent}, media : Media]

\* ContentBlock; an embedded resource is a blob or a text, which parses as
\* JSON or does not.
Block ==
    [type : {"text", "json", "plain"}, payload : Sizes]
        \union [type : {"image", "audio", "blob", "link"}, payload : Sizes, media : Media]
        \union [type : {"unknown"}]

-----------------------------------------------------------------------------
HasRaw(p) == p.type = "file" /\ p.raw # Absent
HasUrl(p) == p.type = "file" /\ p.url # Absent

\* part_payload_size, with nothing counted for a file that has no content.
PayloadSize(p) ==
    CASE p.type # "file" -> p.payload
      [] HasRaw(p)       -> p.raw
      [] OTHER           -> p.url

\* validate_parts.
WithinLimit(parts) == \A i \in DOMAIN parts : PayloadSize(parts[i]) # "large"

\* The capability without which a part is dropped, if it needs one.
Needed(p) ==
    CASE p.type = "data" -> {"embedded_context"}
      [] HasRaw(p)       -> {IF p.media = "other" THEN "embedded_context" ELSE p.media}
      [] OTHER           -> {}

\* translate_one_inbound gives a block, and not nothing, for a part.
PassesInbound(p, caps) ==
    /\ p.type = "file" => HasRaw(p) \/ HasUrl(p)
    /\ Needed(p) \subseteq caps

\* translate_one_inbound, for the parts it gives a block for.
BlockOf(p) ==
    CASE p.type = "text" -> p
      [] p.type = "data" -> [type |-> "json", payload |-> p.payload]
      [] HasRaw(p)       -> [type |-> IF p.media = "other" THEN "blob" ELSE p.media,
                             payload |-> p.raw, media |-> p.media]
      [] OTHER           -> [type |-> "link", payload |-> p.url, media |-> p.media]

\* a2a_to_acp.
Inbound(parts, caps) ==
    LET kept == Sift(parts, {p \in Part : PassesInbound(p, caps)})
    IN  [i \in DOMAIN kept |-> BlockOf(kept[i])]

\* translate_one_outbound, for the blocks it knows.  A text that does not parse
\* becomes the JSON string of itself.
PartOf(b) ==
    CASE b.type = "text"              -> b
      [] b.type \in {"json", "plain"} -> [type |-> "data", payload |-> b.payload]
      [] b.type = "link"              -> [type |-> "file", raw |-> Absent,
                                          url |-> b.payload, media |-> b.media]
      [] OTHER                        -> [type |-> "file", raw |-> b.payload,
                                          url |-> Absent, media |-> b.media]

\* acp_to_a2a.
Outbound(blocks) ==
    LET known == Sift(blocks, {b \in Block : b.type # "unknown"})
    IN  [i \in DOMAIN known |-> PartOf(known[i])]
=============================================================================
