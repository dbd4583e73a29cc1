------------------------------- MODULE Parser -------------------------------
(***************************************************************************)
(* The message parser of kospam (src/parser.c parse_eml_buffer,            *)
(* extract_mime_parts, find_boundary; src/header.c extract_header_value).  *)
(*                                                                         *)
(* The text of a message is a sequence of lines: <<"blank">>, a boundary   *)
(* marker <<"mark", b>>, a Content-Type field <<"ct", type, b>> (b the     *)
(* boundary parameter, <<>> for none), another field <<"watermark", v>> or *)
(* <<"signo">>, an envelope line <<"from", sender>> or <<"rcpts", list>>   *)
(* of smtpd's, or some text <<"text", type, v>>.  The parser never builds  *)
(* a tree: it searches for the marker of the level it is at, ends the part *)
(* at the next one by writing a NUL, and calls itself for a multipart or a *)
(* message in the part.  The levels in progress are the sequence "levels", *)
(* innermost last.  Abstracted: decoding (base64, quoted printable,        *)
(* entities), what a text says, and the envelope line Kospam-Xforward.     *)
(***************************************************************************)
EXTENDS Naturals, Sequences, SequencesExt

CONSTANTS
    BodyRoom,         \* what m->body.data holds, in the sizes of TextSize
    MaxAttachments,   \* MAX_ATTACHMENTS
    Daemon,           \* the sender MAILER-DAEMON
    HeaderRoom,       \* recipients kospam_envelope_recipient holds
    None              \* an empty header field

ASSUME ParserAssumption ==
    /\ BodyRoom \in Nat \ {0} /\ HeaderRoom \in Nat \ {0}
    /\ MaxAttachments \in Nat

(* Types: "cut" and "stub" parts have a Content-Type and no blank line, a  *)
(* stub being shorter than the boundary marker; "listing" is a named text  *)
(* of more than 30000 bytes, "bulk" one that fills the body.               *)
Textual == {"text", "bulk", "listing", "calendar"}
Nested  == {"multi", "message"}

VARIABLES
    text,     \* the buffer
    levels,   \* calls of extract_mime_parts: [b, at, hi], at = 0 for part = NULL
    m         \* struct Message

parserVars == <<text, levels, m>>

EmptyMessage == [body |-> <<>>, used |-> 0, attached |-> 0, octet |-> FALSE,
                 image |-> FALSE, watermark |-> None, signo |-> FALSE,
                 from |-> None, rcpts |-> <<>>]

ParserInit ==
    /\ text = <<>>
    /\ levels = <<>>
    /\ m = EmptyMessage

-----------------------------------------------------------------------------
(* Searching, from line lo up to but not including hi; 0 is not found.     *)
First(lines) == IF lines = {} THEN 0 ELSE Min(lines)
Find(tag, lo, hi) == First({i \in lo .. hi - 1 : text[i][1] = tag})

(* strstr finds the marker of b in the marker of any boundary that begins  *)
(* with b.                                                                 *)
FindMark(b, lo, hi) ==
    First({i \in lo .. hi - 1 : text[i][1] = "mark" /\ IsPrefix(b, text[i][2])})

Level(b, lo, hi) == [b |-> b, at |-> FindMark(b, lo, hi), hi |-> hi]

TextSize(type) == IF type = "bulk" THEN BodyRoom ELSE 1

AppendedUnchecked(v, size, msg) ==                                 \* mutant
    [msg EXCEPT !.body = Append(@, v), !.used = @ + size]

(* APPENDTOBODY: what does not fit is left out.                            *)
Appended(v, size, msg) ==
    IF msg.used + size <= BodyRoom
    THEN [msg EXCEPT !.body = Append(@, v), !.used = @ + size]
    ELSE msg

(* find_boundary of a Content-Type field; <<>>: it has none.               *)
BoundaryOf(i) == text[i][3]

(* extract_name_from_headers: the name of an attachment.                   *)
NameOf(lo, hi) == text[Find("text", lo, hi)][3]

(* The text after a blank line up to hi, in its order.                     *)
AppendedText(lo, hi, msg) ==
    LET i == Find("text", lo, hi)
    IN  IF i = 0 THEN msg ELSE Appended(text[i][3], TextSize(text[i][2]), msg)

(* The value of a header field, and what it is when it is not there: a     *)
(* variable is left as it was.                                             *)
Value(tag, lo, hi, old) ==
    LET i == Find(tag, lo, hi) IN IF i = 0 THEN old ELSE text[i][2]

Fitting(rcpts) ==
    IF Len(rcpts) <= HeaderRoom THEN rcpts ELSE SubSeq(rcpts, 1, HeaderRoom)

FieldsAnew(lo, hi, msg) ==                                         \* mutant
    LET from == Value("from", lo, hi, msg.from)
    IN  [msg EXCEPT
            !.watermark = Value("watermark", lo, hi, @),
            !.from = from,
            !.rcpts = Fitting(Value("rcpts", lo, hi, @)),
            !.signo = from = Daemon /\ Find("signo", lo, hi) # 0]

(* parse_eml_buffer: the header fields are looked for up to the first      *)
(* blank line.  A message within the message has its envelope lines read   *)
(* too, if it has some, and they stay.  Our signo is looked for in bounces *)
(* (the value of an empty Kospam-Envelope-From is the line below it, so    *)
(* "<>" never shows); once found it sets both flags that check_spam tests. *)
Fields(lo, hi, msg) ==
    LET from == Value("from", lo, hi, msg.from)
    IN  [msg EXCEPT
            !.watermark = Value("watermark", lo, hi, @),
            !.from = from,
            !.rcpts = Fitting(Value("rcpts", lo, hi, @)),
            !.signo = @ \/ (from = Daemon /\ Find("signo", lo, hi) # 0)]

(* A body that is no multipart is kept when it is text/plain or text/html, *)
(* or when nothing tells its type.                                         *)
HeadersEnd(lo, hi) == Find("blank", lo, hi)

MessageAfter(lo, hi, msg) ==
    LET e == HeadersEnd(lo, hi)
        c == Find("ct", lo, e)
        f == Fields(lo, IF e = 0 THEN hi ELSE e, msg)
    IN  IF /\ e # 0
           /\ c # 0 => text[c][2] \in Textual \ {"calendar"}
        THEN AppendedText(e + 1, hi, f)
        ELSE f

LevelsAfter(lo, hi) ==
    LET e == HeadersEnd(lo, hi)
        c == Find("ct", lo, e)
    IN  IF e # 0 /\ c # 0 /\ text[c][2] = "multi" /\ BoundaryOf(c) # <<>>
        THEN <<Level(BoundaryOf(c), e + 1, hi)>>
        ELSE <<>>

(* parse_message: read_file, then parse_eml_buffer on the whole buffer.    *)
ReadFile(t) ==
    /\ text' = t
    /\ levels' = <<>>
    /\ m' = EmptyMessage

ParseBuffer ==
    /\ m' = MessageAfter(1, Len(text) + 1, m)
    /\ levels' = LevelsAfter(1, Len(text) + 1)
    /\ UNCHANGED text

-----------------------------------------------------------------------------
(* extract_mime_parts: the loop of the innermost level                     *)

Top      == Last(levels)
NextPartSame == FindMark(Top.b, Top.at, Top.hi)                    \* mutant
NextPart == FindMark(Top.b, Top.at + 1, Top.hi)
PartLo   == Top.at + 1
PartHi   == IF NextPart = 0 THEN Top.hi ELSE NextPart
Typed    == Find("ct", PartLo, PartHi)
Type     == text[Typed][2]
BodyLo   == Find("blank", PartLo, PartHi) + 1

InPart  == levels # <<>> /\ Top.at # 0
GoTo(i) == [levels EXCEPT ![Len(levels)].at = i]
Ended   == InPart /\ Typed # 0 /\ BodyLo > 1     \* a type and a blank line

(* No more part at this level.                                             *)
EndLevel ==
    /\ levels # <<>> /\ Top.at = 0
    /\ levels' = Front(levels)
    /\ UNCHANGED <<text, m>>

(* Parts that name no type are skipped, though they are plain text.        *)
SkipUntyped ==
    /\ InPart /\ Typed = 0
    /\ levels' = GoTo(NextPart)
    /\ UNCHANGED <<text, m>>

(* "if (!part_body) continue": part is not set to next_part, the next turn *)
(* adds the length of the marker again.  That leads past the Content-Type  *)
(* and, with nothing typed up to the NUL, out of the loop, unless the part *)
(* is so short that it leads into the next marker.                         *)
SkipUnended ==
    /\ InPart /\ Typed # 0 /\ BodyLo = 1
    /\ levels' = GoTo(IF Type = "stub" THEN NextPart ELSE 0)
    /\ UNCHANGED <<text, m>>

EnterUnbounded ==                                                  \* mutant
    /\ Ended /\ Type = "multi" /\ BoundaryOf(Typed) # <<>>
    /\ levels' = Append(GoTo(NextPart), Level(BoundaryOf(Typed), BodyLo, Top.hi))
    /\ UNCHANGED <<text, m>>

(* The multipart ends where its part does: *next_part is set to NUL.       *)
EnterMultipart ==
    /\ Ended /\ Type = "multi" /\ BoundaryOf(Typed) # <<>>
    /\ levels' = Append(GoTo(NextPart), Level(BoundaryOf(Typed), BodyLo, PartHi))
    /\ UNCHANGED <<text, m>>

(* A multipart without a boundary: extract_mime_parts returns.             *)
LeaveLevel ==
    /\ Ended /\ Type = "multi" /\ BoundaryOf(Typed) = <<>>
    /\ levels' = Front(levels)
    /\ UNCHANGED <<text, m>>

TakeText ==
    /\ Ended /\ Type \in Textual
    /\ m' = IF Type = "listing" THEN m ELSE AppendedText(BodyLo, PartHi, m)
    /\ levels' = GoTo(NextPart)
    /\ UNCHANGED text

(* message/rfc822: "drop previous email headers", but for the envelope's,  *)
(* then parse_eml_buffer.                                                  *)
TakeMessage ==
    /\ Ended /\ Type = "message"
    /\ m' = MessageAfter(BodyLo, PartHi, [m EXCEPT !.watermark = None])
    /\ levels' = GoTo(NextPart) \o LevelsAfter(BodyLo, PartHi)
    /\ UNCHANGED text

(* Anything else: the flags, then, while attachments[] has room, the file  *)
(* name goes to the body.                                                  *)
TakeAttachment ==
    /\ Ended /\ Type \notin Textual \cup Nested
    /\ LET n == [m EXCEPT !.octet = @ \/ Type = "octet",
                          !.image = @ \/ Type = "image"]
       IN  m' = IF m.attached < MaxAttachments
                THEN Appended(NameOf(BodyLo, PartHi), 1, [n EXCEPT !.attached = @ + 1])
                ELSE n
    /\ levels' = GoTo(NextPart)
    /\ UNCHANGED text

ParserStep ==
    \/ EndLevel \/ SkipUntyped \/ SkipUnended \/ EnterMultipart \/ LeaveLevel
    \/ TakeText \/ TakeMessage \/ TakeAttachment
=============================================================================
