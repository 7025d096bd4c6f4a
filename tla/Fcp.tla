-------------------------------- MODULE Fcp --------------------------------
(***************************************************************************)
(* How CREATE FILE reads its data field: parse_fcp of cmd_create.c on top  *)
(* of the reader of Tlv, from the bytes of the body to the request that    *)
(* fs_create_file is given, or to the status word of a refusal.            *)
(*                                                                         *)
(* A step is one iteration of a loop of the code: a byte of padding, or an *)
(* object.  pc says which reader is running:                               *)
(*   "outer"    the first object of the body: is it the template 62?       *)
(*   "trailer"  it is; does anything follow it?                            *)
(*   "inner"    the loop over the objects of the FCP                       *)
(*   "answered"                                                            *)
(* start .. end - 1 is the window of that reader in the body, pos where it *)
(* is.  reads is a history variable: the bytes the last step looked at.    *)
(***************************************************************************)
EXTENDS FsTypes, Tlv

CONSTANT Bodies   \* the data fields CREATE FILE is sent

\* scos_cmd_create_file refuses an empty body; Lc is at most 255.
ASSUME BodiesAssumption ==
  \A b \in Bodies : b \in Seq(Octet) /\ Len(b) \in 1 .. 255

\* Any two bytes of the body make a file identifier, most significant first.
ASSUME TwoByteFidAssumption == \A x, y \in Octet : 256 * x + y \in Fid

VARIABLES body, pc, start, end, pos, inner, have, req, sw, reads

fcpVars == <<body, pc, start, end, pos, inner, have, req, sw, reads>>

TAG_FCP_TEMPLATE == 98    \* 62
TAG_FILE_DESC == 130      \* 82
TAG_FILE_ID == 131        \* 83
TAG_DATA_BYTES == 128     \* 80
TAG_LIFE_CYCLE == 138     \* 8A
TAG_SFI == 136            \* 88

lifecycle_byte ==
  [l \in fs_lifecycle |->
     CASE l = "CREATION" -> 1 [] l = "INITIALISED" -> 3 [] l = "ACTIVATED" -> 5
       [] l = "DEACTIVATED" -> 4 [] l = "TERMINATED" -> 12]

fs_iso_descriptor_byte(d) == IF fs_is_df(d) THEN 56 ELSE IF fs_is_ef(d) THEN 1 ELSE 0

\* Variant with a mistake: the short identifier is not shifted.
fcp_bytes_unshifted(d) ==
  <<TAG_FILE_DESC, 1, fs_iso_descriptor_byte(d), TAG_FILE_ID, 2, d.file_id \div 256,
    d.file_id % 256, TAG_DATA_BYTES, 2, d.size \div 256, d.size % 256,
    TAG_LIFE_CYCLE, 1, lifecycle_byte[d.lifecycle], TAG_SFI, 1, d.sfi>>

\* fs_build_fcp: the bytes with which SELECT describes a file, fcp_len of them.
fcp_bytes(d) ==
  <<TAG_FILE_DESC, 1, fs_iso_descriptor_byte(d)>>
  \o <<TAG_FILE_ID, 2, d.file_id \div 256, d.file_id % 256>>
  \o (IF fs_is_ef(d) THEN <<TAG_DATA_BYTES, 2, d.size \div 256, d.size % 256>> ELSE <<>>)
  \o <<TAG_LIFE_CYCLE, 1, lifecycle_byte[d.lifecycle]>>
  \o (IF fs_is_ef(d) /\ d.sfi # FS_NO_SFI THEN <<TAG_SFI, 1, 8 * d.sfi>> ELSE <<>>)

NoReq == [file_id |-> 0, type |-> "FREE", lifecycle |-> "ACTIVATED",
          size |-> 0, sfi |-> FS_NO_SFI]

FcpInit(b) ==
  /\ body = b
  /\ pc = "outer"
  /\ start = 0 /\ end = Len(b) /\ pos = 0
  /\ inner = [from |-> 0, to |-> Len(b)]
  /\ have = {}
  /\ req = NoReq
  /\ sw = "none"
  /\ reads = {}

-----------------------------------------------------------------------------
AtPadding == pos < end /\ IsPadding(At(body, pos))

\* Variant with a mistake: the loop does not advance.
skip_padding_stuck ==
  /\ pc # "answered"
  /\ AtPadding
  /\ reads' = {pos}
  /\ UNCHANGED <<body, pc, start, end, pos, inner, have, req, sw>>

\* One byte of the loop of skip_padding.
skip_padding ==
  /\ pc # "answered"
  /\ AtPadding
  /\ pos' = pos + 1
  /\ reads' = {pos}
  /\ UNCHANGED <<body, pc, start, end, inner, have, req, sw>>

answer(status) ==
  /\ pc' = "answered"
  /\ sw' = status
  /\ UNCHANGED <<body, start, end, pos, inner, have, req>>

\* The loop over the FCP starts, on the whole body or inside the template.
read_inner(from, to) ==
  /\ pc' = "inner"
  /\ start' = from /\ end' = to /\ pos' = from
  /\ UNCHANGED <<body, inner, have, req, sw>>

\* Anything but the template 62, an unreadable object included, leaves the body
\* as it is; it is read again as a bare FCP.
outer_object ==
  /\ pc = "outer"
  /\ ~AtPadding
  /\ LET o == tlv_next(body, pos, end)
     IN /\ reads' = pos .. o.read - 1
        /\ IF o.st = "OK" /\ o.tag = TAG_FCP_TEMPLATE
           THEN /\ pc' = "trailer"
                /\ pos' = o.to
                /\ inner' = [from |-> o.from, to |-> o.to]
                /\ UNCHANGED <<body, start, end, have, req, sw>>
           ELSE read_inner(0, Len(body))

\* tlv_reader_done: only padding may follow the template, which holds something.
outer_done ==
  /\ pc = "trailer"
  /\ ~AtPadding
  /\ reads' = IF pos < end THEN {pos} ELSE {}
  /\ IF pos < end \/ inner.from = inner.to
     THEN answer("6A80")
     ELSE read_inner(inner.from, inner.to)

-----------------------------------------------------------------------------
(***************************************************************************)
(* One object of the FCP.                                                  *)
(***************************************************************************)
\* Variant with a mistake: the structure of an EF is not looked at.
decode_fdb_any_ef(octet) ==
  IF octet >= 128 THEN "MALFORMED"
  ELSE IF (octet \div 8) % 8 = 7 THEN IF octet % 8 = 0 THEN "DF" ELSE "MALFORMED"
  ELSE "EF"

\* The type a file descriptor byte stands for, or why it is refused.
decode_fdb(octet) ==
  LET type == (octet \div 8) % 8
      stru == octet % 8
  IN IF octet >= 128 THEN "MALFORMED"
     ELSE IF type = 7 THEN IF stru = 0 THEN "DF" ELSE "MALFORMED"
     ELSE IF type = 0 /\ stru = 1 THEN "EF"
     ELSE "UNSUPPORTED"

\* Of the tags that are counted (82, 83, 80), the first may occur.  Tags 8A and
\* 88 are not counted.
Counted == {TAG_FILE_DESC, TAG_FILE_ID, TAG_DATA_BYTES}
Known == Counted \cup {TAG_LIFE_CYCLE, TAG_SFI}

\* Variant with a mistake: an identifier of any length is read.
length_ok_loose(o) ==
  CASE o.tag = TAG_FILE_ID -> o.to > o.from
    [] o.tag = TAG_DATA_BYTES -> tlv_is_uint(o)
    [] OTHER -> o.to - o.from = 1

\* The length an object must have before its value is looked at.
length_ok(o) ==
  CASE o.tag = TAG_FILE_ID -> o.to - o.from = 2
    [] o.tag = TAG_DATA_BYTES -> tlv_is_uint(o)
    [] OTHER -> o.to - o.from = 1

value_reads(o) ==
  CASE o.tag = TAG_FILE_ID -> {o.from, o.from + 1}
    [] o.tag = TAG_DATA_BYTES -> o.from .. o.to - 1
    [] OTHER -> {o.from}

\* The object may be looked at: known, not a repetition, and of good length.
Presentable(o) == o.tag \in Known /\ o.tag \notin have /\ length_ok(o)

\* The status of the switch over the tag.
object_sw(o) ==
  LET v == At(body, o.from)
      n == tlv_get_uint(body, o)
  IN IF ~Presentable(o) THEN "6A80"
     ELSE CASE o.tag = TAG_FILE_DESC ->
                 CASE decode_fdb(v) = "MALFORMED" -> "6A80"
                   [] decode_fdb(v) = "UNSUPPORTED" -> "6A81"
                   [] OTHER -> "9000"
            [] o.tag = TAG_FILE_ID -> "9000"
            [] o.tag = TAG_DATA_BYTES ->
                 IF n > FS_MAX_EF_SIZE THEN "6A84" ELSE IF n = 0 THEN "6A80" ELSE "9000"
            [] o.tag = TAG_LIFE_CYCLE ->
                 IF \E l \in fs_lifecycle \ {"TERMINATED"} : lifecycle_byte[l] = v
                 THEN "9000" ELSE "6A80"
            [] o.tag = TAG_SFI ->
                 IF v % 8 # 0 \/ v \div 8 > 30 THEN "6A80" ELSE "9000"

\* The request after an object that was accepted.
object_req(o) ==
  LET v == At(body, o.from)
  IN CASE o.tag = TAG_FILE_DESC -> [req EXCEPT !.type = decode_fdb(v)]
       [] o.tag = TAG_FILE_ID -> [req EXCEPT !.file_id = 256 * v + At(body, o.from + 1)]
       [] o.tag = TAG_DATA_BYTES -> [req EXCEPT !.size = tlv_get_uint(body, o)]
       [] o.tag = TAG_LIFE_CYCLE ->
            [req EXCEPT !.lifecycle = CHOOSE l \in fs_lifecycle : lifecycle_byte[l] = v]
       [] o.tag = TAG_SFI -> [req EXCEPT !.sfi = v \div 8]

\* Variant with a mistake: a DF with a short identifier is accepted.
final_sw_any_df ==
  IF /\ {TAG_FILE_DESC, TAG_FILE_ID} \subseteq have
     /\ req.type = "EF" => TAG_DATA_BYTES \in have
  THEN "9000" ELSE "6A80"

\* What parse_fcp says once all objects are read.
final_sw ==
  IF /\ {TAG_FILE_DESC, TAG_FILE_ID} \subseteq have
     /\ req.type = "EF" => TAG_DATA_BYTES \in have
     /\ req.type = "DF" => TAG_DATA_BYTES \notin have /\ req.sfi = FS_NO_SFI
  THEN "9000" ELSE "6A80"

inner_object ==
  /\ pc = "inner"
  /\ ~AtPadding
  /\ LET o == tlv_next(body, pos, end)
     IN /\ reads' = (pos .. o.read - 1)
                    \cup (IF o.st = "OK" /\ Presentable(o) THEN value_reads(o) ELSE {})
        /\ IF o.st = "END" THEN answer(final_sw)
           ELSE IF o.st # "OK" THEN answer("6A80")
           ELSE IF object_sw(o) # "9000" THEN answer(object_sw(o))
           ELSE /\ pos' = o.to
                /\ req' = object_req(o)
                /\ have' = IF o.tag \in Counted THEN have \cup {o.tag} ELSE have
                /\ UNCHANGED <<body, pc, start, end, inner, sw>>

FcpNext == skip_padding \/ outer_object \/ outer_done \/ inner_object

\* The handler runs to its end.
FcpSpec == (\E b \in Bodies : FcpInit(b)) /\ [][FcpNext]_fcpVars /\ WF_fcpVars(FcpNext)

-----------------------------------------------------------------------------
(***************************************************************************)
(* Properties.                                                             *)
(***************************************************************************)
\* Every byte that is looked at lies in the window of the reader that looks:
\* in the body, and for an object of the template inside the template, whatever
\* lengths the body claims (tlv.h: "VALIDATE BEFORE INDEXING").
ReadsInside == [][reads' \subseteq start .. end - 1]_fcpVars

\* A request that is accepted is one that fs_create_file takes: it never
\* answers 6A86, which would blame P1-P2 for a fault in the data field.
AcceptedIsValid == sw = "9000" => req \in CreateReq /\ ValidReq(req)

\* The steps until the parser answers, at most: twice the length of the body, and
\* three, for the body is read again when the template is not found, but not a
\* third time.
StepsLeft ==
  CASE pc = "outer" -> (end - pos) + Len(body) + 3
    [] pc = "trailer" -> (end - pos) + Len(body) + 2
    [] pc = "inner" -> (end - pos) + 1
    [] OTHER -> 0

\* Every iteration of every loop of parse_fcp, and every change from one reader to
\* the next, leaves fewer steps to go, whatever the bytes are.
ParserAdvances == [][StepsLeft' \in 0 .. StepsLeft - 1]_fcpVars

\* Parsing ends: every iteration of every loop makes progress.
ParsingEnds == <>(pc = "answered")
=============================================================================
