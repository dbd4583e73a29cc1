------------------------------ MODULE MimeTree ------------------------------
(***************************************************************************)
(* The reference for Parser: a message as the tree its sender built, the   *)
(* lines it is sent as, what kospam is to find in it, and the properties   *)
(* of MessagePath that compare the two.                                    *)
(*                                                                         *)
(* A node is [k, b, env, parts]: its kind (the types of Parser, "untyped", *)
(* "quote": an untyped text that quotes a Content-Type, "ours": a message  *)
(* with our signo), its boundary, its envelope lines and its parts, none   *)
(* for a leaf, one for a message.  A leaf is known by its path from the    *)
(* root.                                                                   *)
(***************************************************************************)
EXTENDS MessagePath

Leaf(k)           == [k |-> k, b |-> <<>>, env |-> <<>>, parts |-> <<>>]
Multi(b, parts)   == [k |-> "multi", b |-> b, env |-> <<>>, parts |-> parts]
Enclose(k, e, n)  == [k |-> k, b |-> <<>>, env |-> e, parts |-> <<n>>]
Wrap(k, n)        == Enclose(k, <<>>, n)

(* The markers of a multipart whose header names no boundary.              *)
Lost == <<"?">>

RECURSIVE Lines(_, _)
Header(n, path) ==
    n.env \o <<<<"watermark", path>>>>
          \o IF n.k = "ours" THEN <<<<"signo">>>> ELSE <<>>
Lines(n, path) ==
    CASE n.k = "untyped" -> <<<<"blank">>, <<"text", "text", path>>>>
      [] n.k = "quote" ->
            <<<<"blank">>, <<"ct", "octet", <<>>>>, <<"text", "text", path>>>>
      [] n.k \in {"cut", "stub"} -> <<<<"ct", n.k, <<>>>>>>
      [] n.k \in {"message", "ours"} ->
            <<<<"ct", "message", <<>>>>, <<"blank">>>>
            \o Header(n, path) \o Lines(n.parts[1], Append(path, 1))
      [] n.k = "multi" ->
            LET mark == <<<<"mark", IF n.b = <<>> THEN Lost ELSE n.b>>>>
            IN  <<<<"ct", "multi", n.b>>, <<"blank">>>>
                \o FlattenSeq([i \in DOMAIN n.parts |->
                                 mark \o Lines(n.parts[i], Append(path, i))])
                \o mark
      [] OTHER -> <<<<"ct", n.k, <<>>>>, <<"blank">>, <<"text", n.k, path>>>>

(* The file of a message: its header fields and the lines of its root.     *)
FileOf(n) == Tail(Tail(Lines(Wrap("message", n), <<>>)))

(* What is found in a node, after s; s.stop ends the level the node is at. *)
RECURSIVE Found(_, _, _)
Content(n, path, s) ==                  \* the body of a (nested) message
    CASE n.k \in {"untyped", "text", "bulk", "listing"} ->
            Appended(path, TextSize(n.k), s)
      [] n.k = "quote" -> Appended(path, 1, s)
      [] n.k = "multi" /\ n.b # <<>> ->
            FoldLeft(LAMBDA t, i : IF t.stop THEN t
                                   ELSE Found(n.parts[i], Append(path, i), t),
                     [s EXCEPT !.stop = FALSE], [i \in DOMAIN n.parts |-> i])
      [] OTHER -> s
WithHeader(n, path, s) ==               \* of a (nested) message
    LET from == IF n.env = <<>> THEN s.from ELSE n.env[1][2]
    IN  [s EXCEPT !.watermark = path, !.from = from,
                  !.rcpts = IF n.env = <<>> THEN @ ELSE Fitting(n.env[2][2]),
                  !.signo = @ \/ (from = Daemon /\ n.k = "ours")]
Found(n, path, s) ==
    CASE n.k \in {"untyped", "stub", "listing"} -> s
      [] n.k = "cut" \/ (n.k = "multi" /\ n.b = <<>>) -> [s EXCEPT !.stop = TRUE]
      [] n.k \in Textual -> Appended(path, TextSize(n.k), s)
      [] n.k = "multi" -> [Content(n, path, s) EXCEPT !.stop = FALSE]
      [] n.k \in {"message", "ours"} ->
            [Content(n.parts[1], Append(path, 1), WithHeader(n, path, s))
                EXCEPT !.stop = FALSE]
      [] OTHER ->
            LET type == IF n.k = "quote" THEN "octet" ELSE n.k
                t == [s EXCEPT !.octet = @ \/ type = "octet",
                               !.image = @ \/ type = "image"]
            IN  IF s.attached < MaxAttachments
                THEN Appended(path, 1, [t EXCEPT !.attached = @ + 1]) ELSE t

Expected(f, n) ==
    LET whole == Enclose("message", EnvelopeLines(f.from, f.rcpts), n)
        start == EmptyMessage @@ [stop |-> FALSE]
    IN  Content(n, <<1>>, WithHeader(whole, <<>>, start))

-----------------------------------------------------------------------------
(* Properties                                                              *)

(* No boundary begins with the boundary of a multipart around it.          *)
RECURSIVE Boundaries(_), Distinct(_), Stops(_)
Boundaries(n) == ({n.b} \ {<<>>}) \cup UNION {Boundaries(n.parts[i]) : i \in DOMAIN n.parts}
Distinct(n) ==
    \A i \in DOMAIN n.parts :
        /\ n.b # <<>> => \A b \in Boundaries(n.parts[i]) : ~IsPrefix(n.b, b)
        /\ Distinct(n.parts[i])

(* Something the parser does not get beyond: a part without a blank line,  *)
(* a multipart without a boundary.                                         *)
Stops(n) ==
    \/ n.k = "cut" \/ (n.k = "multi" /\ n.b = <<>>)
    \/ \E i \in DOMAIN n.parts : Stops(n.parts[i])

ReadToEnd == stage = "parse" /\ levels = <<>>

(* Searching for markers reads the message its sender built: the body and  *)
(* flags are those of the tree, the watermark that of the last message in  *)
(* it, the envelope that of the last message that has one, for every       *)
(* nesting, order and overflow, unless boundaries extend each other and    *)
(* some part is malformed as well (extract_mime_parts, parse_eml_buffer).  *)
ReadAsTree ==
    ReadToEnd /\ (Distinct(tree) \/ ~Stops(tree)) =>
        LET e == Expected(file, tree) IN m = [f \in DOMAIN m |-> e[f]]
=============================================================================
