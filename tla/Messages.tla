------------------------------- MODULE Messages -------------------------------
(***************************************************************************)
(* How a MailMessage is made: from an answer to UID FETCH (imap/parsing.py)*)
(* or a column row (mail/columns.py, mail/service.py), with the times,     *)
(* priority and parts that mail/message.py then shows.  Conversions keep no*)
(* state: a behaviour takes one input and converts it.  A FETCH answer is  *)
(* what imaplib makes of it, its order left out (the watcher sorts by id). *)
(***************************************************************************)
EXTENDS Integers, Sequences

CONSTANTS
    Asked,          \* the UIDs a fetch asks for
    Others,         \* other UIDs of the folder
    MaxParts        \* bound: parts of a message

ASSUME MessagesAssumption ==
    Asked \cup Others \subseteq Nat \ {0} /\ Asked \cap Others = {} /\ MaxParts \in Nat

VARIABLES input, output

conversion == <<input, output>>

None == -1
Foreign == -2

NotYet == [raises |-> FALSE]
Raises == [raises |-> TRUE]

-----------------------------------------------------------------------------
(* Headers over IMAP.  An entry of the data is a pair whose second half is *)
(* the header of a message, or a line of its own (literal 0).  uid is the  *)
(* UID in its attributes, or 0.                                            *)

Entry == [uid : Asked \cup Others \cup {0}, flags : BOOLEAN, literal : Asked \cup {0}]

(* RFC 3501 leaves the order of the items of an answer to the server: those*)
(* after the literal are in a line of their own.                           *)
Orders == {"leading", "split", "trailing", "gone"}

EntriesFor(m, order) ==
    CASE order = "leading"  -> {[uid |-> m, flags |-> TRUE, literal |-> m]}
      [] order = "split"    -> {[uid |-> m, flags |-> FALSE, literal |-> m],
                                [uid |-> 0, flags |-> TRUE, literal |-> 0]}
      [] order = "trailing" -> {[uid |-> 0, flags |-> FALSE, literal |-> m],
                                [uid |-> m, flags |-> TRUE, literal |-> 0]}
      [] order = "gone"     -> {}

(* Flag changes that nobody asked for, with or without the UID. *)
Unsolicited == [uid : Asked \cup Others \cup {0}, flags : {TRUE}, literal : {0}]

Answers == [task : {"headers"}, order : [Asked -> Orders], extra : SUBSET Unsolicited]

Data == (UNION {EntriesFor(m, input.order[m]) : m \in Asked}) \cup input.extra

(* Mutant: lines of their own are no items. *)
Items_PairsOnly(data) == {e \in data : e.literal # 0}

(* parse_fetch_items: pairs, and lines that hold a UID. *)
Items(data) == {e \in data : e.literal # 0 \/ e.uid # 0}

(* Mutant: an item without a UID makes a row all the same. *)
HeaderRows_Any(items) ==
    {[id |-> e.uid, header |-> e.literal, flags |-> e.flags] : e \in items}

(* header_row: an item without a UID is skipped. *)
HeaderRows(items) ==
    {[id |-> e.uid, header |-> e.literal, flags |-> e.flags] : e \in {i \in items : i.uid # 0}}

FetchHeaders ==
    /\ input.task = "headers" /\ output = NotYet
    /\ output' = [rows |-> HeaderRows(Items(Data))]
    /\ UNCHANGED input

-----------------------------------------------------------------------------
(* The fields of a message, over IMAP and over HTTP.  A time is in         *)
(* milliseconds, None where it is missing or cannot be read; Foreign is a  *)
(* header with bytes that are not ASCII, <<"blank">> one of spaces.        *)

Times == {None, 0, 1}
Words == {<<"high">>, <<"normal">>, <<"low">>, <<"other">>}
Numbers == {<<"number", n>> : n \in 0 .. 6}
Absent == {<<"absent">>, <<"empty">>}

Headers ==
    [task : {"fields"}, internal : Times, date : Times \cup {Foreign},
     xPriority : Words \cup Numbers \cup Absent \cup {<<"blank">>},
     importance : Words \cup {<<"absent">>}]

(* _priority: importance counts where X-Priority is missing or empty;      *)
(* numbers are clamped, words other than three mean nothing.               *)
Priority(h) ==
    LET raw == IF h.xPriority \in Absent THEN h.importance ELSE h.xPriority
    IN CASE raw \in Numbers -> IF raw[2] < 1 THEN 1 ELSE IF raw[2] > 5 THEN 5 ELSE raw[2]
         [] raw = <<"high">> -> 1
         [] raw = <<"normal">> -> 3
         [] raw = <<"low">> -> 5
         [] OTHER -> None

Received(h) == IF h.internal = None THEN h.date ELSE h.internal

(* header_row: the headers it cannot convert raise. *)
HeaderRow(h) ==
    IF h.date = Foreign \/ h.xPriority = <<"blank">> THEN Raises
    ELSE [received_date |-> Received(h), date |-> None, sent_date |-> h.date,
          priority |-> Priority(h)]

(* The row Open-Xchange has for the same message. *)
OXRow(h) ==
    <<h.internal, h.internal, IF h.date = Foreign THEN None ELSE h.date, None>>

OXColumns == <<"received_date", "date", "sent_date", "priority">>

(* row_to_mapping: by position. *)
RowToMapping(row) ==
    [field \in {OXColumns[i] : i \in DOMAIN OXColumns} |->
        row[CHOOSE i \in DOMAIN OXColumns : OXColumns[i] = field]]

(* Mutant: the time of arrival comes from the fallback column first. *)
FromMapping_DateFirst(payload) ==
    [received |-> payload.date, sent |-> payload.sent_date, priority |-> payload.priority]

(* from_mapping; a received date of 0 is falsy. *)
FromMapping(payload) ==
    [received |-> IF payload.received_date \in {None, 0} THEN payload.date
                  ELSE payload.received_date,
     sent |-> payload.sent_date,
     priority |-> payload.priority]

Fields ==
    /\ input.task = "fields" /\ output = NotYet
    /\ output' = IF HeaderRow(input) = Raises THEN Raises
                 ELSE [imap |-> FromMapping(HeaderRow(input)),
                       http |-> FromMapping(RowToMapping(OXRow(input)))]
    /\ UNCHANGED input

-----------------------------------------------------------------------------
(* The body.  A part is a leaf of the message, or (attached) the leaf of an*)
(* attached message; "text" is other text, as text/calendar.  What it holds*)
(* is there, empty, or in an unknown charset.                              *)

Parts ==
    [type : {"html", "plain", "text", "other"}, disp : {"inline", "attachment"},
     text : {"some", "empty", "unknown"}, attached : BOOLEAN]

Contents == [task : {"detail"}, parts : UNION {[1 .. n -> Parts] : n \in 1 .. MaxParts}]

(* Mutant: every text part carries its content. *)
HasContent_Files(part) == part.type # "other"

(* _part_to_attachment: text of any kind, if no attachment, is decoded. *)
HasContent(part) == part.type # "other" /\ part.disp # "attachment"

Decodes(parts) ==
    \A i \in DOMAIN parts : HasContent(parts[i]) => parts[i].text # "unknown"

(* rfc822_to_detail walks into attached messages as well. *)
Detail(parts) ==
    [i \in DOMAIN parts |->
        [type |-> parts[i].type,
         content |-> IF HasContent(parts[i]) THEN parts[i].text ELSE "absent"]]

(* _body_part: the first part of the kind that has content, 0 for None.    *)
BodyPart(detail, type) ==
    LET those == {i \in DOMAIN detail : detail[i].type = type /\ detail[i].content # "absent"}
    IN IF those = {} THEN 0 ELSE CHOOSE i \in those : \A j \in those : i <= j

(* body: HTML, or plain text where that is None or empty. *)
Body(detail) ==
    LET html == BodyPart(detail, "html")
    IN IF html # 0 /\ detail[html].content = "some" THEN html ELSE BodyPart(detail, "plain")

FetchDetail ==
    /\ input.task = "detail" /\ output = NotYet
    /\ output' = IF Decodes(input.parts) THEN [body |-> Body(Detail(input.parts))]
                 ELSE Raises
    /\ UNCHANGED input

Begin == input \in Answers \cup Headers \cup Contents /\ output = NotYet

Convert == FetchHeaders \/ Fields \/ FetchDetail

Conversion == Begin /\ [][Convert]_conversion

-----------------------------------------------------------------------------
(* Properties.                                                             *)

Converted(task) == input.task = task /\ output \notin {NotYet, Raises}

OutputOK ==
    /\ Converted("headers") => output.rows \subseteq [id : Asked \cup Others,
                                                     header : Asked \cup {0}, flags : BOOLEAN]
    /\ Converted("fields") => {output.imap.priority, output.http.priority} \subseteq 1 .. 5 \cup {None}
    /\ Converted("detail") => output.body \in 0 .. Len(input.parts)

(* A message that is there has a row: with its headers, if the server gives*)
(* its UID before the literal, and without them if it gives it behind, with*)
(* its flags if they come together with the UID.  Where no unasked line is *)
(* about it, the usual order gives this row alone.                         *)
RowPerMessage ==
    Converted("headers") => \A m \in Asked :
        LET rows == {r \in output.rows : r.id = m}
            named == \E e \in input.extra : e.uid = m
            order == input.order[m]
        IN /\ order # "gone" =>
                [id |-> m, header |-> IF order = "trailing" THEN 0 ELSE m,
                 flags |-> order # "split"] \in rows
           /\ order = "leading" /\ ~named
                => rows = {[id |-> m, header |-> m, flags |-> TRUE]}
           /\ order = "gone" /\ ~named => rows = {}
           /\ \A r \in rows : r.header \in {m, 0}

(* docs/watching.md: headers are fetched "only for the UIDs that actually  *)
(* appeared".  A row for another message, or one without headers, comes    *)
(* from an attribute line behind the header or one nobody asked for.       *)
NoForeignRow ==
    Converted("headers") => \A r \in output.rows : r.id \notin Asked \/ r.header = 0
        => \/ \E e \in input.extra : e.uid = r.id
           \/ r.id \in Asked /\ input.order[r.id] = "trailing"

(* A fetch of headers gives the rows of what was asked for, and no row that*)
(* the order of the answer or an unasked line does not explain.            *)
RowsMatch == RowPerMessage /\ NoForeignRow

(* When a message arrived, as the two backends show it: both the same time,*)
(* the INTERNALDATE, but for two cases.  Where it is missing, IMAP takes   *)
(* the Date header and HTTP has nothing; where it is the epoch, from_mapping*)
(* takes it for missing, and only HTTP has a column to fall back on.  A    *)
(* header that does not convert makes no message over IMAP.                *)
ReceivedTimes ==
    Converted("fields") =>
        LET imap == output.imap.received
            http == output.http.received
        IN /\ input.internal \notin {None, 0} => imap = input.internal /\ http = imap
           /\ imap # http => \/ input.internal = None /\ imap = input.date /\ http = None
                             \/ input.internal = 0 /\ imap = None /\ http = 0

(* docs/reading.md: the body is "html or text, whichever exists".  It is   *)
(* the first HTML part to be shown, if that has text, else the first plain *)
(* one: never a file or other text, and missing only where there is no     *)
(* plain part and no HTML part, or an empty one before the other HTML.     *)
(* Parts of attached messages count as the message's own: their HTML goes  *)
(* before its plain text.                                                  *)
BodyShown ==
    Converted("detail") =>
        LET parts == input.parts
            body == output.body
            Inline(type) == {i \in DOMAIN parts : parts[i].type = type /\ parts[i].disp = "inline"}
            First(i, type) == i \in Inline(type) /\ \A j \in Inline(type) : i <= j
        IN \/ First(body, "html") /\ parts[body].text = "some"
           \/ /\ \A i \in DOMAIN parts : First(i, "html") => parts[i].text = "empty"
              /\ First(body, "plain") \/ (body = 0 /\ Inline("plain") = {})
=============================================================================
