----------------------------- MODULE FcpProofs -----------------------------
(***************************************************************************)
(* Proofs about the parser of CREATE FILE, for every body up to the length *)
(* a command can carry: it reads no byte outside the window of its reader, *)
(* and what it accepts is a valid request.                                 *)
(*                                                                         *)
(* The second half is about the texts of FcpMeaning: every body is one,    *)
(* the description that SELECT returns of a file is one, and the reader    *)
(* finds their objects in the bytes.  A lemma that serves one theorem only *)
(* is a named step of its proof.                                           *)
(***************************************************************************)
EXTENDS FcpMeaning, SeqLemmas

-----------------------------------------------------------------------------
(***************************************************************************)
(* The reader.                                                             *)
(***************************************************************************)
(* The reader.                                                             *)
(***************************************************************************)
\* A byte of the body is an octet, and so is the stand-in for a byte outside.
LEMMA AtIsOctet ==
  ASSUME NEW b \in Seq(Octet), NEW p \in Nat
  PROVE  At(b, p) \in 0 .. 255
<1>1. CASE p < Len(b)
  <2>1. p + 1 \in 1 .. Len(b)
    BY <1>1
  <2>2. b[p + 1] \in Octet
    BY <2>1
  <2> QED BY <1>1, <2>2 DEF At, Octet
<1>2. CASE ~(p < Len(b))
  BY <1>2 DEF At
<1> QED BY <1>1, <1>2

\* tlv_next looks at no byte beyond the window, finds the end exactly at the end
\* of it, and returns only objects that are whole: after the position, and
\* inside the window.
LEMMA TlvNextInWindow ==
  ASSUME NEW b \in Seq(Octet), NEW p \in Nat, NEW e \in Nat, p <= e, e <= Len(b)
  PROVE  LET o == tlv_next(b, p, e)
         IN /\ o.read \in Int /\ o.read <= e
            /\ o.st = "END" => p = e
            /\ o.st = "OK" => /\ o.from \in Nat /\ o.to \in Nat
                              /\ p < o.from /\ o.from <= o.to /\ o.to <= e
<1> DEFINE t0 == At(b, p)
           t1 == At(b, p + 1)
           high == t0 % 32 = 31
           lpos == IF high THEN p + 2 ELSE p + 1
           l0 == At(b, lpos)
           nbytes == IF l0 < 128 THEN 0 ELSE l0 - 128
           from == lpos + 1 + nbytes
           length == IF nbytes = 0 THEN l0
                     ELSE IF nbytes = 1 THEN At(b, lpos + 1)
                     ELSE 256 * At(b, lpos + 1) + At(b, lpos + 2)
           o == tlv_next(b, p, e)
<1>1. /\ lpos \in Nat /\ p < lpos
      /\ high => lpos = p + 2
      /\ ~high => lpos = p + 1
  OBVIOUS
<1>2. l0 \in 0 .. 255 /\ nbytes \in Nat /\ length \in Nat
  <2>1. l0 \in 0 .. 255 /\ At(b, lpos + 1) \in 0 .. 255 /\ At(b, lpos + 2) \in 0 .. 255
    <3> HIDE DEF lpos
    <3> QED BY <1>1, AtIsOctet
  <2> HIDE DEF lpos, l0
  <2>2. nbytes \in Nat
    BY <2>1
  <2>3. length \in Nat
    <3> HIDE DEF nbytes
    <3>1. \A x, y \in 0 .. 255 : 256 * x + y \in Nat
      OBVIOUS
    <3>2. 256 * At(b, lpos + 1) + At(b, lpos + 2) \in Nat
      BY <2>1, <3>1, Zenon
    <3>3. l0 \in Nat /\ At(b, lpos + 1) \in Nat
      <4>1. \A x \in 0 .. 255 : x \in Nat
        OBVIOUS
      <4> QED BY <2>1, <4>1, Zenon
    <3> QED BY <3>2, <3>3
  <2> QED BY <2>1, <2>2, <2>3
<1>3. from \in Nat /\ lpos < from
  <2> HIDE DEF lpos, nbytes
  <2> QED BY <1>1, <1>2
<1>4. o = IF p >= e THEN NoObject("END", p)
          ELSE IF high /\ p + 1 >= e THEN NoObject("ERR_TRUNCATED", p + 1)
          ELSE IF high /\ t1 >= 128 THEN NoObject("ERR_TAG", p + 2)
          ELSE IF lpos >= e THEN NoObject("ERR_TRUNCATED", lpos)
          ELSE IF l0 \in {128, 255} \/ nbytes > TLV_MAX_LEN_BYTES
               THEN NoObject("ERR_LENGTH", lpos + 1)
          ELSE IF from > e THEN NoObject("ERR_TRUNCATED", lpos + 1)
          ELSE IF from + length > e THEN NoObject("ERR_TRUNCATED", from)
          ELSE [st |-> "OK", tag |-> IF high THEN 256 * t0 + t1 ELSE t0,
                from |-> from, to |-> from + length, read |-> from]
  BY DEF tlv_next
<1> HIDE DEF t0, t1, high, lpos, l0, nbytes, from, length, o
<1>5. /\ o.read \in Int /\ o.read <= e
      /\ o.st = "END" => p = e
      /\ o.st = "OK" => /\ o.from \in Nat /\ o.to \in Nat
                        /\ p < o.from /\ o.from <= o.to /\ o.to <= e
  <2>1. CASE p >= e
    BY <2>1, <1>4 DEF NoObject
  <2>2. CASE p < e /\ high /\ p + 1 >= e
    BY <2>2, <1>4 DEF NoObject
  <2>3. CASE p < e /\ high /\ p + 1 < e /\ t1 >= 128
    BY <2>3, <1>4 DEF NoObject
  <2>4. CASE p < e /\ ~(high /\ p + 1 >= e) /\ ~(high /\ t1 >= 128)
    <3>1. lpos <= e
      BY <2>4, <1>1
    <3>2. CASE lpos >= e
      BY <2>4, <3>1, <3>2, <1>1, <1>4 DEF NoObject
    <3>3. CASE lpos < e /\ (l0 \in {128, 255} \/ nbytes > TLV_MAX_LEN_BYTES)
      BY <2>4, <3>3, <1>1, <1>4 DEF NoObject
    <3>4. CASE lpos < e /\ ~(l0 \in {128, 255} \/ nbytes > TLV_MAX_LEN_BYTES) /\ from > e
      BY <2>4, <3>4, <1>1, <1>4 DEF NoObject
    <3>5. CASE /\ lpos < e /\ ~(l0 \in {128, 255} \/ nbytes > TLV_MAX_LEN_BYTES)
               /\ from <= e /\ from + length > e
      BY <2>4, <3>5, <1>1, <1>2, <1>3, <1>4 DEF NoObject
    <3>6. CASE /\ lpos < e /\ ~(l0 \in {128, 255} \/ nbytes > TLV_MAX_LEN_BYTES)
               /\ from <= e /\ from + length <= e
      BY <2>4, <3>6, <1>1, <1>2, <1>3, <1>4
    <3> QED BY <3>2, <3>3, <3>4, <3>5, <3>6, <1>1, <1>2, <1>3
  <2> QED BY <2>1, <2>2, <2>3, <2>4
<1> QED BY <1>5 DEF o

-----------------------------------------------------------------------------
(***************************************************************************)
(* The inductive invariant: the windows are nested in the body, and the    *)
(* request built so far agrees with the set of tags that were seen.        *)
(***************************************************************************)
(* The inductive invariant: the windows are nested in the body, and the    *)
(* request built so far agrees with the set of tags that were seen.        *)
(***************************************************************************)
\* The windows of the reader are nested.
WindowInv ==
  /\ body \in Seq(Octet)
  /\ start \in Nat /\ end \in Nat /\ pos \in Nat
  /\ start <= pos /\ pos <= end /\ end <= Len(body)
  /\ pc = "trailer" => /\ inner.from \in Nat /\ inner.to \in Nat
                       /\ inner.from <= inner.to /\ inner.to <= Len(body)

\* The requests that can be built so far.
PartialReq ==
  [file_id : Fid, type : {"FREE", "DF", "EF"},
   lifecycle : fs_lifecycle \ {"TERMINATED"}, size : 0 .. FS_MAX_EF_SIZE, sfi : Sfi]

\* What is in the request is what was seen.
RequestInv ==
  /\ req \in PartialReq
  /\ TAG_FILE_DESC \in have => req.type \in {"DF", "EF"}
  /\ TAG_DATA_BYTES \in have => req.size # 0
  /\ TAG_DATA_BYTES \notin have => req.size = 0

\* The inductive invariant.
FcpInv ==
  /\ WindowInv
  /\ RequestInv
  /\ sw = "9000" => pc = "answered"
  /\ AcceptedIsValid

\* The parser starts on the whole body, with an empty request.
LEMMA FcpStarts ==
  ASSUME NEW b \in Seq(Octet), FcpInit(b)
  PROVE  FcpInv
<1>1. Len(b) \in Nat
  OBVIOUS
<1>2. WindowInv
  BY <1>1 DEF FcpInit, WindowInv
<1>3. RequestInv
  <2>1. 0 \in Fid
    <3>1. 256 * 0 + 0 \in Fid
      <4>1. 0 \in Octet
        BY DEF Octet
      <4> QED BY <4>1, TwoByteFidAssumption, Zenon
    <3> QED BY <3>1
  <2>2. NoReq \in PartialReq /\ NoReq.size = 0
    BY <2>1, SizesAssumption, SMT DEF PartialReq, NoReq, fs_lifecycle, Sfi, FS_NO_SFI
  <2> QED BY <2>2 DEF FcpInit, RequestInv
<1>4. AcceptedIsValid
  BY DEF FcpInit, AcceptedIsValid
<1>5. sw = "9000" => pc = "answered"
  BY DEF FcpInit
<1> QED BY <1>2, <1>3, <1>4, <1>5 DEF FcpInv

\* Every step preserves the invariant.
LEMMA FcpStep ==
  FcpInv /\ [FcpNext]_fcpVars => FcpInv'
\* An object of one to four bytes is a natural number.
<1>UintIsNat.
    ASSUME NEW b \in Seq(Octet), NEW o, o.from \in Nat, o.to \in Nat
    PROVE  tlv_get_uint(b, o) \in Nat
  <2> DEFINE digit(k) == IF o.from + k < o.to THEN At(b, o.to - 1 - k) ELSE 0
  <2>1. ASSUME NEW k \in Nat PROVE digit(k) \in 0 .. 255
    <3>1. CASE o.from + k < o.to
      <4>1. o.to - 1 - k \in Nat
        BY <1>UintIsNat, <3>1
      <4>2. At(b, o.to - 1 - k) \in 0 .. 255
        BY <4>1, AtIsOctet
      <4> QED
        BY <3>1, <4>2
    <3>2. CASE ~(o.from + k < o.to)
      BY <3>2
    <3> QED
      BY <3>1, <3>2
  <2>2. tlv_get_uint(b, o)
          = digit(0) + 256 * digit(1) + 65536 * digit(2) + 16777216 * digit(3)
    BY DEF tlv_get_uint
  <2>3. digit(0) \in 0 .. 255 /\ digit(1) \in 0 .. 255 /\ digit(2) \in 0 .. 255
        /\ digit(3) \in 0 .. 255
    BY <2>1
  <2>4. PICK w \in 0 .. 255, x \in 0 .. 255, y \in 0 .. 255, z \in 0 .. 255 :
          w = digit(0) /\ x = digit(1) /\ y = digit(2) /\ z = digit(3)
    <3> HIDE DEF digit
    <3> QED
      BY <2>3, Zenon
  <2>5. w + 256 * x + 65536 * y + 16777216 * z \in Nat
    BY SMT
  <2>6. digit(0) + 256 * digit(1) + 65536 * digit(2) + 16777216 * digit(3) \in Nat
    <3> HIDE DEF digit
    <3> QED
      BY <2>4, <2>5, SMT
  <2> QED
    BY <2>2, <2>6
\* The windows stay nested: the reader moves to the end of an object or past a
\* byte of padding, and goes down only into an object it has found.
<1>WindowStep.
    ASSUME WindowInv, FcpNext
    PROVE  WindowInv'
  <2> DEFINE o == tlv_next(body, pos, end)
  <2>1. /\ o.read \in Int /\ o.read <= end
        /\ o.st = "END" => pos = end
        /\ o.st = "OK" => /\ o.from \in Nat /\ o.to \in Nat
                          /\ pos < o.from /\ o.from <= o.to /\ o.to <= end
    BY <1>WindowStep, TlvNextInWindow DEF WindowInv
  <2> HIDE DEF o
  <2>2. CASE skip_padding
    BY <1>WindowStep, <2>2 DEF WindowInv, skip_padding, AtPadding
  <2>3. CASE outer_object
    <3>1. CASE o.st = "OK" /\ o.tag = TAG_FCP_TEMPLATE
      BY <1>WindowStep, <2>1, <2>3, <3>1 DEF WindowInv, outer_object, o
    <3>2. CASE ~(o.st = "OK" /\ o.tag = TAG_FCP_TEMPLATE)
      BY <1>WindowStep, <2>3, <3>2 DEF WindowInv, outer_object, read_inner, o
    <3> QED
      BY <3>1, <3>2
  <2>4. CASE outer_done
    <3>1. CASE pos < end \/ inner.from = inner.to
      BY <1>WindowStep, <2>4, <3>1 DEF WindowInv, outer_done, answer
    <3>2. CASE ~(pos < end \/ inner.from = inner.to)
      BY <1>WindowStep, <2>4, <3>2 DEF WindowInv, outer_done, read_inner
    <3> QED
      BY <3>1, <3>2
  <2>5. CASE inner_object
    <3>1. \/ pc' = "answered" /\ UNCHANGED <<body, start, end, pos>>
          \/ o.st = "OK" /\ pos' = o.to /\ UNCHANGED <<body, start, end, pc, inner>>
      BY <2>5 DEF inner_object, answer, o
    <3> QED
      BY <1>WindowStep, <2>1, <3>1 DEF WindowInv
  <2> QED
    BY <1>WindowStep, <2>2, <2>3, <2>4, <2>5 DEF FcpNext
\* Assigning a field of the request: its type,
<1>SetType.
    ASSUME NEW r \in PartialReq, NEW x \in {"DF", "EF"}, NEW q, q = [r EXCEPT !.type = x]
    PROVE  q \in PartialReq /\ q.type = x /\ q.size = r.size
  BY <1>SetType, SMT DEF PartialReq
\* its identifier,
<1>SetFileId.
    ASSUME NEW r \in PartialReq, NEW x \in Fid, NEW q, q = [r EXCEPT !.file_id = x]
    PROVE  q \in PartialReq /\ q.type = r.type /\ q.size = r.size
  BY <1>SetFileId, SMT DEF PartialReq
\* its size,
<1>SetSize.
    ASSUME NEW r \in PartialReq, NEW x \in 0 .. FS_MAX_EF_SIZE, NEW q, q = [r EXCEPT !.size = x]
    PROVE  q \in PartialReq /\ q.type = r.type /\ q.size = x
  BY <1>SetSize, SMT DEF PartialReq
\* its life cycle,
<1>SetLifecycle.
    ASSUME NEW r \in PartialReq, NEW x \in fs_lifecycle \ {"TERMINATED"}, NEW q, q = [r EXCEPT !.lifecycle = x]
    PROVE  q \in PartialReq /\ q.type = r.type /\ q.size = r.size
  BY <1>SetLifecycle, SMT DEF PartialReq
\* its short identifier.
<1>SetSfi.
    ASSUME NEW r \in PartialReq, NEW x \in Sfi, NEW q, q = [r EXCEPT !.sfi = x]
    PROVE  q \in PartialReq /\ q.type = r.type /\ q.size = r.size
  BY <1>SetSfi, SMT DEF PartialReq
\* An object that the switch accepts leaves the request in agreement with the
\* tags seen.
<1>ObjectStep.
    ASSUME WindowInv, RequestInv, NEW o, o.from \in Nat, o.to \in Nat,
           object_sw(o) = "9000",
           req' = object_req(o),
           have' = IF o.tag \in Counted THEN have \cup {o.tag} ELSE have
    PROVE  RequestInv'
  <2> DEFINE v == At(body, o.from)
             n == tlv_get_uint(body, o)
  <2>1. v \in 0 .. 255 /\ At(body, o.from + 1) \in 0 .. 255 /\ n \in Nat
    <3>1. body \in Seq(Octet) /\ o.from + 1 \in Nat
      BY <1>ObjectStep DEF WindowInv
    <3> QED
      BY <1>ObjectStep, <3>1, AtIsOctet, <1>UintIsNat, Zenon
  <2> HIDE DEF v, n
  <2>2. Presentable(o) /\ o.tag \in Known
    BY <1>ObjectStep DEF object_sw, Presentable
  <2> USE DEF Counted, TAG_FILE_DESC, TAG_FILE_ID, TAG_DATA_BYTES, TAG_LIFE_CYCLE, TAG_SFI
  <2>3. CASE o.tag = TAG_FILE_DESC
    <3>1. decode_fdb(v) \in {"MALFORMED", "UNSUPPORTED", "DF", "EF"}
      BY DEF decode_fdb
    <3>2. decode_fdb(v) \in {"DF", "EF"}
      BY <1>ObjectStep, <2>2, <2>3, <3>1 DEF object_sw, v
    <3>3. req' = [req EXCEPT !.type = decode_fdb(v)]
      BY <1>ObjectStep, <2>3 DEF object_req, v
    <3>4. have' = have \cup {TAG_FILE_DESC}
      BY <1>ObjectStep, <2>3
    <3>5. req' \in PartialReq /\ req'.type \in {"DF", "EF"} /\ req'.size = req.size
      BY <1>ObjectStep, <3>2, <3>3, <1>SetType, SMT DEF RequestInv
    <3> QED
      BY <1>ObjectStep, <3>4, <3>5 DEF RequestInv
  <2>4. CASE o.tag = TAG_FILE_ID
    <3>1. req' = [req EXCEPT !.file_id = 256 * v + At(body, o.from + 1)]
      BY <1>ObjectStep, <2>4 DEF object_req, v
    <3>2. 256 * v + At(body, o.from + 1) \in Fid
      BY <2>1, TwoByteFidAssumption, Zenon DEF Octet
    <3>3. have' = have \cup {TAG_FILE_ID}
      BY <1>ObjectStep, <2>4
    <3>4. req' \in PartialReq /\ req'.type = req.type /\ req'.size = req.size
      BY <1>ObjectStep, <3>1, <3>2, <1>SetFileId, SMT DEF RequestInv
    <3> QED
      BY <1>ObjectStep, <3>3, <3>4 DEF RequestInv
  <2>5. CASE o.tag = TAG_DATA_BYTES
    <3>1. ~(n > FS_MAX_EF_SIZE) /\ n # 0
      BY <1>ObjectStep, <2>2, <2>5 DEF object_sw, n
    <3>2. n \in 0 .. FS_MAX_EF_SIZE
      BY <2>1, <3>1, SizesAssumption
    <3>3. req' = [req EXCEPT !.size = n]
      BY <1>ObjectStep, <2>5 DEF object_req, n
    <3>4. have' = have \cup {TAG_DATA_BYTES}
      BY <1>ObjectStep, <2>5
    <3>5. req' \in PartialReq /\ req'.type = req.type /\ req'.size = n
      BY <1>ObjectStep, <3>2, <3>3, <1>SetSize, SMT DEF RequestInv
    <3> QED
      BY <1>ObjectStep, <3>1, <3>4, <3>5 DEF RequestInv
  <2>6. CASE o.tag = TAG_LIFE_CYCLE
    <3> DEFINE l == CHOOSE x \in fs_lifecycle : lifecycle_byte[x] = v
    <3>1. PICK x \in fs_lifecycle \ {"TERMINATED"} : lifecycle_byte[x] = v
      BY <1>ObjectStep, <2>2, <2>6 DEF object_sw, v
    <3>2. l \in fs_lifecycle /\ lifecycle_byte[l] = v
      BY <3>1
    <3> HIDE DEF l
    <3>3. l # "TERMINATED"
      BY <3>1, <3>2 DEF lifecycle_byte, fs_lifecycle
    <3>4. req' = [req EXCEPT !.lifecycle = l]
      BY <1>ObjectStep, <2>6 DEF object_req, v, l
    <3>5. have' = have
      BY <1>ObjectStep, <2>6
    <3>6. req' \in PartialReq /\ req'.type = req.type /\ req'.size = req.size
      BY <1>ObjectStep, <3>2, <3>3, <3>4, <1>SetLifecycle, SMT DEF RequestInv
    <3> QED
      BY <1>ObjectStep, <3>5, <3>6 DEF RequestInv
  <2>7. CASE o.tag = TAG_SFI
    <3>1. ~(v % 8 # 0 \/ v \div 8 > 30)
      BY <1>ObjectStep, <2>2, <2>7 DEF object_sw, v
    <3>2. v \div 8 \in Sfi
      BY <2>1, <3>1 DEF Sfi
    <3>3. req' = [req EXCEPT !.sfi = v \div 8]
      BY <1>ObjectStep, <2>7 DEF object_req, v
    <3>4. have' = have
      BY <1>ObjectStep, <2>7
    <3>5. req' \in PartialReq /\ req'.type = req.type /\ req'.size = req.size
      BY <1>ObjectStep, <3>2, <3>3, <1>SetSfi, SMT DEF RequestInv
    <3> QED
      BY <1>ObjectStep, <3>4, <3>5 DEF RequestInv
  <2> QED
    BY <2>2, <2>3, <2>4, <2>5, <2>6, <2>7 DEF Known
\* Only inner_object builds the request or accepts one.
<1>RequestStep.
    ASSUME FcpInv, FcpNext
    PROVE  RequestInv' /\ AcceptedIsValid'
  <2> DEFINE o == tlv_next(body, pos, end)
  <2>1. o.st = "OK" => o.from \in Nat /\ o.to \in Nat
    BY <1>RequestStep, TlvNextInWindow DEF FcpInv, WindowInv
  <2> HIDE DEF o
  <2>2. ASSUME UNCHANGED <<req, have>> PROVE RequestInv'
    BY <1>RequestStep, <2>2 DEF FcpInv, RequestInv
  <2>3. ASSUME UNCHANGED <<req, sw>> PROVE AcceptedIsValid'
    BY <1>RequestStep, <2>3 DEF FcpInv, AcceptedIsValid
  <2>4. ASSUME sw' # "9000" PROVE AcceptedIsValid'
    BY <2>4 DEF AcceptedIsValid
  <2>5. CASE skip_padding
    BY <2>2, <2>3, <2>5 DEF skip_padding
  <2>6. CASE outer_object
    BY <2>2, <2>3, <2>6 DEF outer_object, read_inner
  <2>7. CASE outer_done
    BY <2>2, <2>3, <2>4, <2>7 DEF outer_done, answer, read_inner
  <2>8. CASE inner_object
    <3>1. CASE o.st = "END"
      <4>1. sw' = final_sw /\ UNCHANGED <<req, have>>
        BY <2>8, <3>1 DEF inner_object, answer, o
      <4>2. CASE final_sw = "9000"
        <5>1. {TAG_FILE_DESC, TAG_FILE_ID} \subseteq have
          /\ (req.type = "EF" => TAG_DATA_BYTES \in have)
          /\ (req.type = "DF" => TAG_DATA_BYTES \notin have /\ req.sfi = FS_NO_SFI)
          BY <4>2 DEF final_sw
        <5>2. /\ req \in PartialReq /\ req.type \in {"DF", "EF"}
              /\ req.type = "DF" => req.size = 0 /\ req.sfi = FS_NO_SFI
              /\ req.type = "EF" => req.size # 0
          BY <1>RequestStep, <5>1 DEF FcpInv, RequestInv
        <5>3. req \in CreateReq
          BY <5>2 DEF PartialReq, CreateReq
        <5>4. /\ req.lifecycle \in fs_lifecycle \ {"TERMINATED"}
              /\ req.sfi \in Sfi /\ req.size \in 0 .. FS_MAX_EF_SIZE
          BY <5>2 DEF PartialReq
        <5>5. ValidReq(req)
          BY <5>2, <5>4, SizesAssumption DEF ValidReq
        <5> QED
          BY <2>2, <4>1, <5>3, <5>5 DEF AcceptedIsValid
      <4>3. CASE final_sw # "9000"
        BY <2>2, <2>4, <4>1, <4>3
      <4> QED
        BY <4>2, <4>3
    <3>2. CASE o.st \notin {"END", "OK"} \/ (o.st = "OK" /\ object_sw(o) # "9000")
      <4>1. sw' # "9000" /\ UNCHANGED <<req, have>>
        BY <2>8, <3>2 DEF inner_object, answer, o
      <4> QED
        BY <2>2, <2>4, <4>1
    <3>3. CASE o.st = "OK" /\ object_sw(o) = "9000"
      <4>1. /\ req' = object_req(o) /\ sw' = sw /\ pc = "inner"
            /\ have' = IF o.tag \in Counted THEN have \cup {o.tag} ELSE have
        BY <2>8, <3>3 DEF inner_object, o
      <4>2. RequestInv'
        BY <1>RequestStep, <2>1, <3>3, <4>1, <1>ObjectStep DEF FcpInv
      <4>3. sw' # "9000"
        BY <1>RequestStep, <4>1 DEF FcpInv
      <4> QED
        BY <2>4, <4>2, <4>3
    <3> QED
      BY <3>1, <3>2, <3>3
  <2> QED
    BY <1>RequestStep, <2>5, <2>6, <2>7, <2>8 DEF FcpNext
\* Once it has answered, the parser takes no step; until then it has not accepted.
<1>AnsweredStep.
    ASSUME FcpInv, FcpNext
    PROVE  sw' = "9000" => pc' = "answered"
  <2>1. sw' = sw \/ pc' = "answered"
    BY <1>AnsweredStep DEF FcpNext, skip_padding, outer_object, outer_done, inner_object, answer, read_inner
  <2>2. sw = "9000" => pc = "answered"
    BY <1>AnsweredStep DEF FcpInv
  <2>3. pc # "answered"
    BY <1>AnsweredStep DEF FcpNext, skip_padding, outer_object, outer_done, inner_object
  <2> QED
    BY <2>1, <2>2, <2>3
<1> SUFFICES ASSUME FcpInv, [FcpNext]_fcpVars PROVE FcpInv'
  OBVIOUS
<1>1. CASE FcpNext
  <2>1. WindowInv'
    BY <1>1, <1>WindowStep DEF FcpInv
  <2> QED BY <1>1, <2>1, <1>RequestStep, <1>AnsweredStep DEF FcpInv
<1>2. CASE UNCHANGED fcpVars
  BY <1>2 DEF fcpVars, FcpInv, WindowInv, RequestInv, AcceptedIsValid
<1> QED BY <1>1, <1>2

\* The invariant holds throughout.
THEOREM FcpInvariant ==
  FcpSpec => []FcpInv
\* The bodies of the specification are sequences of octets.
<1>FcpInitInv.
    (\E b \in Bodies : FcpInit(b)) => FcpInv
  BY BodiesAssumption, FcpStarts
<1>1. (\E b \in Bodies : FcpInit(b)) => FcpInv
  BY <1>FcpInitInv
<1>2. FcpInv /\ [FcpNext]_fcpVars => FcpInv'
  BY FcpStep
<1> QED BY <1>1, <1>2, PTL DEF FcpSpec

\* A request that parse_fcp accepts is valid for fs_create_file: of type DF without
\* size and short identifier, or EF with a size it can hold; never terminated.
THEOREM AcceptedRequestsAreValid == FcpSpec => []AcceptedIsValid
<1>1. FcpInv => AcceptedIsValid
  BY DEF FcpInv
<1> QED BY <1>1, FcpInvariant, PTL

\* The parser reads no byte outside the window of its reader, whatever lengths the
\* body claims: not past the body, and not past the template it is in.
THEOREM ParserReadsInside ==
  FcpSpec => ReadsInside
\* What a step looks at is inside the window of the reader that takes it.
<1>StepReadsInside.
    ASSUME WindowInv, FcpNext
    PROVE  reads' \subseteq start .. end - 1
  <2> DEFINE o == tlv_next(body, pos, end)
  <2>1. /\ o.read \in Int /\ o.read <= end
        /\ o.st = "OK" => /\ o.from \in Nat /\ o.to \in Nat
                          /\ pos < o.from /\ o.from <= o.to /\ o.to <= end
    BY <1>StepReadsInside, TlvNextInWindow DEF WindowInv
  <2> HIDE DEF o
  <2>2. (pos .. o.read - 1) \subseteq start .. end - 1
    BY <1>StepReadsInside, <2>1 DEF WindowInv
  <2>3. CASE skip_padding
    BY <1>StepReadsInside, <2>3 DEF WindowInv, skip_padding, AtPadding
  <2>4. CASE outer_object
    BY <2>2, <2>4 DEF outer_object, o
  <2>5. CASE outer_done
    BY <1>StepReadsInside, <2>5 DEF WindowInv, outer_done
  <2>6. CASE inner_object
    <3>1. reads' = (pos .. o.read - 1)
                   \cup (IF o.st = "OK" /\ Presentable(o) THEN value_reads(o) ELSE {})
      BY <2>6 DEF inner_object, o
    <3>2. ASSUME o.st = "OK", Presentable(o)
          PROVE  value_reads(o) \subseteq start .. end - 1
      <4>1. length_ok(o)
        BY <3>2 DEF Presentable
      <4>2. CASE o.tag = TAG_FILE_ID
        <5>1. value_reads(o) = {o.from, o.from + 1} /\ o.to - o.from = 2
          BY <4>1, <4>2 DEF value_reads, length_ok, TAG_FILE_ID, TAG_DATA_BYTES
        <5> QED
          BY <1>StepReadsInside, <2>1, <3>2, <5>1 DEF WindowInv
      <4>3. CASE o.tag = TAG_DATA_BYTES
        <5>1. value_reads(o) = o.from .. o.to - 1
          BY <4>3 DEF value_reads, TAG_FILE_ID, TAG_DATA_BYTES
        <5> QED
          BY <1>StepReadsInside, <2>1, <3>2, <5>1 DEF WindowInv
      <4>4. CASE o.tag \notin {TAG_FILE_ID, TAG_DATA_BYTES}
        <5>1. value_reads(o) = {o.from} /\ o.to - o.from = 1
          BY <4>1, <4>4 DEF value_reads, length_ok
        <5> QED
          BY <1>StepReadsInside, <2>1, <3>2, <5>1 DEF WindowInv
      <4> QED
        BY <4>2, <4>3, <4>4
    <3> QED
      BY <2>2, <3>1, <3>2
  <2> QED
    BY <1>StepReadsInside, <2>3, <2>4, <2>5, <2>6 DEF FcpNext
<1>1. FcpInv /\ [FcpNext]_fcpVars => [reads' \subseteq start .. end - 1]_fcpVars
  BY <1>StepReadsInside DEF FcpInv
<1> QED BY <1>1, FcpInvariant, PTL DEF FcpSpec, ReadsInside

\* Whatever the body claims, each step of the parser leaves fewer steps to go, so
\* it answers after at most twice the length of the body and three.
THEOREM ParserNearsItsEnd == FcpSpec => ParserAdvances
<1> DEFINE Reading == pc \in {"outer", "trailer", "inner", "answered"}
<1>0. FcpSpec => []Reading
  <2>1. (\E b \in Bodies : FcpInit(b)) => Reading
    BY DEF FcpInit
  <2>2. Reading /\ [FcpNext]_fcpVars => Reading'
    BY DEF FcpNext, fcpVars, skip_padding, outer_object, outer_done, inner_object,
           read_inner, answer
  <2> QED
    BY <2>1, <2>2, PTL DEF FcpSpec
<1>1. ASSUME WindowInv, Reading, FcpNext PROVE StepsLeft' \in 0 .. StepsLeft - 1
  <2> DEFINE o == tlv_next(body, pos, end)
  <2>1. PICK n \in Nat : n = Len(body)
    BY <1>1 DEF WindowInv
  <2>2. /\ end \in Nat /\ pos \in Nat /\ pos <= end /\ end <= n
        /\ pc = "trailer" => /\ inner.from \in Nat /\ inner.to \in Nat
                             /\ inner.from <= inner.to /\ inner.to <= n
    BY <1>1, <2>1 DEF WindowInv
  <2>3. o.st = "OK" => o.to \in Nat /\ pos < o.to /\ o.to <= end
    <3>1. o.st = "OK" => /\ o.from \in Nat /\ o.to \in Nat
                         /\ pos < o.from /\ o.from <= o.to /\ o.to <= end
      BY <1>1, TlvNextInWindow DEF WindowInv
    <3> HIDE DEF o
    <3> QED
      BY <2>2, <3>1
  <2> HIDE DEF o
  <2>4. /\ pc = "outer" => StepsLeft = (end - pos) + n + 3
        /\ pc = "trailer" => StepsLeft = (end - pos) + n + 2
        /\ pc = "inner" => StepsLeft = (end - pos) + 1
    BY <2>1 DEF StepsLeft
  <2>5. body' = body =>
          /\ pc' = "outer" => StepsLeft' = (end' - pos') + n + 3
          /\ pc' = "trailer" => StepsLeft' = (end' - pos') + n + 2
          /\ pc' = "inner" => StepsLeft' = (end' - pos') + 1
          /\ pc' = "answered" => StepsLeft' = 0
    BY <2>1 DEF StepsLeft
  <2>6. CASE skip_padding
    <3>1. /\ pc \in {"outer", "trailer", "inner"} /\ pc' = pc /\ body' = body
          /\ end' = end /\ pos' = pos + 1 /\ pos < end
      BY <1>1, <2>6 DEF skip_padding, AtPadding
    <3> QED
      BY <2>2, <2>4, <2>5, <3>1
  <2>7. CASE outer_object
    <3>1. /\ pc = "outer" /\ body' = body
          /\ \/ o.st = "OK" /\ pc' = "trailer" /\ pos' = o.to /\ end' = end
             \/ pc' = "inner" /\ pos' = 0 /\ end' = n
      BY <2>1, <2>7 DEF outer_object, read_inner, o
    <3> QED
      BY <2>2, <2>3, <2>4, <2>5, <3>1
  <2>8. CASE outer_done
    <3>1. /\ pc = "trailer" /\ body' = body
          /\ \/ pc' = "answered"
             \/ pc' = "inner" /\ pos' = inner.from /\ end' = inner.to
      BY <2>8 DEF outer_done, read_inner, answer
    <3> QED
      BY <2>2, <2>4, <2>5, <3>1
  <2>9. CASE inner_object
    <3>1. /\ pc = "inner" /\ body' = body
          /\ \/ pc' = "answered"
             \/ o.st = "OK" /\ pc' = "inner" /\ pos' = o.to /\ end' = end
      BY <2>9 DEF inner_object, answer, o
    <3> QED
      BY <2>2, <2>3, <2>4, <2>5, <3>1
  <2> QED
    BY <1>1, <2>6, <2>7, <2>8, <2>9 DEF FcpNext
<1>2. FcpInv /\ Reading /\ [FcpNext]_fcpVars => [StepsLeft' \in 0 .. StepsLeft - 1]_fcpVars
  BY <1>1 DEF FcpInv
<1> QED
  BY <1>0, <1>2, FcpInvariant, PTL DEF FcpSpec, ParserAdvances

-----------------------------------------------------------------------------
(***************************************************************************)
(* The bytes of an object, and of a field.                                 *)
(***************************************************************************)
\* A two-byte number, byte by byte.
LEMMA TwoBytes ==
  ASSUME NEW v \in Nat, v < 65536, NEW x, x = v \div 256, NEW y, y = v % 256
  PROVE  x \in 0 .. 255 /\ y \in 0 .. 255 /\ v = 256 * x + y
<1>1. v \div 256 \in Nat /\ v \div 256 < 256
  BY SMT
<1>2. v % 256 \in 0 .. 255
  BY SMT
<1>3. v = 256 * (v \div 256) + (v % 256)
  BY SMT
<1> QED
  BY <1>1, <1>2, <1>3, SMT

\* A sequence of up to three bytes.
LEMMA ShortSeq ==
  ASSUME NEW O, NEW x \in O, NEW y \in O, NEW z \in O
  PROVE  /\ <<x>> \in Seq(O) /\ Len(<<x>>) = 1 /\ <<x>>[1] = x
         /\ <<x, y>> \in Seq(O) /\ Len(<<x, y>>) = 2 /\ <<x, y>>[1] = x /\ <<x, y>>[2] = y
         /\ <<x, y, z>> \in Seq(O) /\ Len(<<x, y, z>>) = 3
         /\ <<x, y, z>>[1] = x /\ <<x, y, z>>[2] = y /\ <<x, y, z>>[3] = z
OBVIOUS

\* and x, y and z, as many as it takes, say the length v in the given form.
LengthIs(form, v, x, y, z) ==
  \/ form = 0 /\ v < 128 /\ x = v
  \/ form = 1 /\ v < 256 /\ x = 129 /\ y = v
  \/ form = 2 /\ v < 65536 /\ x = 130 /\ v = 256 * y + z

\* The length of an object, byte by byte.
LEMMA LengthBytes ==
  ASSUME NEW v \in Nat, NEW form, Fits(form, v), NEW l, l = LengthField(form, v)
  PROVE  /\ form \in 0 .. 2
         /\ l \in Seq(Octet) /\ Len(l) = 1 + form
         /\ LengthIs(form, v, l[1], l[2], l[3])
<1>1. CASE form = 0
  <2>1. v < 128 /\ l = <<v>>
    BY <1>1 DEF Fits, LengthField
  <2>2. v \in Octet
    BY <2>1 DEF Octet
  <2>3. l \in Seq(Octet) /\ Len(l) = 1 /\ l[1] = v
    BY <2>1, <2>2, ShortSeq, SMT
  <2> QED
    BY <1>1, <2>1, <2>3, SMT DEF LengthIs
<1>2. CASE form = 1
  <2>1. v < 256 /\ l = <<129, v>>
    BY <1>2 DEF Fits, LengthField
  <2>2. v \in Octet /\ 129 \in Octet
    BY <2>1 DEF Octet
  <2>3. l \in Seq(Octet) /\ Len(l) = 2 /\ l[1] = 129 /\ l[2] = v
    BY <2>1, <2>2, ShortSeq, SMT
  <2> QED
    BY <1>2, <2>1, <2>3, SMT DEF LengthIs
<1>3. CASE form = 2
  <2> DEFINE x == v \div 256
             y == v % 256
  <2>1. v < 65536 /\ l = <<130, x, y>>
    BY <1>3, SMT DEF Fits, LengthField
  <2>2. x \in Octet /\ y \in Octet /\ v = 256 * x + y
    <3>1. x = v \div 256 /\ y = v % 256
      OBVIOUS
    <3> HIDE DEF x, y
    <3>2. v < 65536
      BY <2>1
    <3> QED
      BY <3>1, <3>2, TwoBytes, SMT DEF Octet
  <2>3. 130 \in Octet
    BY DEF Octet
  <2> HIDE DEF x, y
  <2>4. l \in Seq(Octet) /\ Len(l) = 3 /\ l[1] = 130 /\ l[2] = x /\ l[3] = y
    BY <2>1, <2>2, <2>3, ShortSeq, SMT
  <2> QED
    BY <1>3, <2>1, <2>2, <2>4, SMT DEF LengthIs
<1> QED
  BY <1>1, <1>2, <1>3, SMT DEF Fits

\* Two byte strings in a row, byte by byte, and three of them.
LEMMA TwoParts ==
  ASSUME NEW O, NEW x \in Seq(O), NEW y \in Seq(O)
  PROVE  /\ x \o y \in Seq(O) /\ Len(x \o y) = Len(x) + Len(y)
         /\ \A j \in 1 .. Len(x) : (x \o y)[j] = x[j]
         /\ \A j \in 1 .. Len(y) : (x \o y)[Len(x) + j] = y[j]
OBVIOUS

\* The sequence b is x, y and z one after the other.
Joins(b, x, y, z, O) ==
  /\ b \in Seq(O)
  /\ Len(b) = Len(x) + Len(y) + Len(z)
  /\ \A j \in 1 .. Len(x) : b[j] = x[j]
  /\ \A j \in 1 .. Len(y) : b[Len(x) + j] = y[j]
  /\ \A j \in 1 .. Len(z) : b[Len(x) + Len(y) + j] = z[j]

\* The length and the elements of three sequences one after the other.
LEMMA ThreeParts ==
  ASSUME NEW O, NEW x \in Seq(O), NEW y \in Seq(O), NEW z \in Seq(O)
  PROVE  Joins((x \o y) \o z, x, y, z, O)
<1> DEFINE h == x \o y
           c == h \o z
<1>1. Len(x) \in Nat /\ Len(y) \in Nat /\ Len(z) \in Nat
  OBVIOUS
<1>2. /\ h \in Seq(O) /\ Len(h) = Len(x) + Len(y)
      /\ \A j \in 1 .. Len(x) : h[j] = x[j]
      /\ \A j \in 1 .. Len(y) : h[Len(x) + j] = y[j]
  BY TwoParts
<1> HIDE DEF h
<1>3. /\ c \in Seq(O) /\ Len(c) = Len(h) + Len(z)
      /\ \A j \in 1 .. Len(h) : c[j] = h[j]
      /\ \A j \in 1 .. Len(z) : c[Len(h) + j] = z[j]
  <2>1. h \in Seq(O)
    BY <1>2
  <2> QED
    BY <2>1
<1> HIDE DEF c
<1>5. /\ \A j \in 1 .. Len(x) : j \in 1 .. Len(h)
      /\ \A j \in 1 .. Len(y) : Len(x) + j \in 1 .. Len(h)
  BY <1>1, <1>2
<1>6. /\ \A j \in 1 .. Len(x) : c[j] = x[j]
      /\ \A j \in 1 .. Len(y) : c[Len(x) + j] = y[j]
  BY <1>2, <1>3, <1>5, Zenon
<1>7. Len(c) = Len(x) + Len(y) + Len(z) /\ \A j \in 1 .. Len(z) : c[Len(x) + Len(y) + j] = z[j]
  BY <1>2, <1>3, Zenon
<1> QED
  BY <1>3, <1>6, <1>7, Zenon DEF c, h, Joins

(* The bytes of an object, and what the reader makes of them.              *)
(***************************************************************************)
\* The first bytes of an object: x and y are a tag of n bytes,
TagIs(n, x, y) ==
  \/ n = 1 /\ x % 32 # 31 /\ x # 0
  \/ n = 2 /\ x % 32 = 31 /\ x # 255 /\ y < 128

\* The bytes s are an object with this tag, form of length and value.
Encodes(s, tag, form, val) ==
  /\ tag \in Seq(Octet) /\ IsTag(tag)
  /\ val \in Seq(Octet) /\ Fits(form, Len(val))
  /\ s = (tag \o LengthField(form, Len(val))) \o val

\* The bytes of an object, one by one.
LEMMA ObjectBytes ==
  ASSUME NEW s, NEW tag, NEW form, NEW val, Encodes(s, tag, form, val)
  PROVE  /\ tag \in Seq(Octet) /\ val \in Seq(Octet) /\ s \in Seq(Octet)
         /\ form \in 0 .. 2 /\ Len(tag) \in {1, 2}
         /\ Len(s) = Len(tag) + 1 + form + Len(val)
         /\ TagIs(Len(tag), s[1], s[2])
         /\ LengthIs(form, Len(val), s[Len(tag) + 1], s[Len(tag) + 2], s[Len(tag) + 3])
         /\ \A j \in 1 .. Len(tag) : s[j] = tag[j]
         /\ \A j \in 1 .. Len(val) : s[Len(tag) + 1 + form + j] = val[j]
<1>1. /\ tag \in Seq(Octet) /\ IsTag(tag)
      /\ val \in Seq(Octet) /\ Fits(form, Len(val))
  BY DEF Encodes
<1> DEFINE n == Len(tag)
           v == Len(val)
<1>2. n \in Nat /\ v \in Nat /\ n = Len(tag) /\ v = Len(val)
  BY <1>1
<1> HIDE DEF n, v
<1> DEFINE l == LengthField(form, Len(val))
           b == (tag \o l) \o val
<1>5. n \in {1, 2} /\ TagIs(n, tag[1], tag[2])
  BY <1>1, <1>2, SMT DEF IsTag, TagIs
<1>6. /\ form \in 0 .. 2
      /\ l \in Seq(Octet) /\ Len(l) = 1 + form
      /\ LengthIs(form, v, l[1], l[2], l[3])
  <2>1. v \in Nat /\ l = LengthField(form, v) /\ Fits(form, v)
    BY <1>1, <1>2
  <2> HIDE DEF l
  <2> QED
    BY <2>1, LengthBytes
<1> HIDE DEF l
<1>7. /\ b \in Seq(Octet)
      /\ Len(b) = Len(tag) + Len(l) + Len(val)
      /\ \A j \in 1 .. Len(tag) : b[j] = tag[j]
      /\ \A j \in 1 .. Len(l) : b[Len(tag) + j] = l[j]
      /\ \A j \in 1 .. Len(val) : b[Len(tag) + Len(l) + j] = val[j]
  <2>1. l \in Seq(Octet)
    BY <1>6
  <2>2. Joins(b, tag, l, val, Octet)
    BY <1>1, <2>1, ThreeParts, Zenon
  <2> QED
    BY <2>2, Zenon DEF Joins
<1>7a. s = b
  BY DEF Encodes, l
<1> HIDE DEF b
<1>8. /\ b \in Seq(Octet)
      /\ Len(b) = n + (1 + form) + v
      /\ \A j \in 1 .. n : b[j] = tag[j]
      /\ \A j \in 1 .. 1 + form : b[n + j] = l[j]
      /\ \A j \in 1 .. v : b[n + (1 + form) + j] = val[j]
  BY <1>2, <1>6, <1>7, Zenon
<1>9. n + (1 + form) = n + 1 + form
  <2>1. form \in Nat
    BY <1>6
  <2> QED
    BY <1>2, <2>1
<1>10. TagIs(n, b[1], b[2])
  <2>1. 1 \in 1 .. n /\ (n = 2 => 2 \in 1 .. n)
    BY <1>5
  <2>2. b[1] = tag[1] /\ (n = 2 => b[2] = tag[2])
    BY <1>8, <2>1
  <2> QED
    BY <1>5, <2>2, SMT DEF TagIs
<1>11. LengthIs(form, v, b[n + 1], b[n + 2], b[n + 3])
  <2>1. /\ 1 \in 1 .. 1 + form
        /\ form = 1 => 2 \in 1 .. 1 + form
        /\ form = 2 => 2 \in 1 .. 1 + form /\ 3 \in 1 .. 1 + form
    BY <1>6
  <2>2. /\ b[n + 1] = l[1]
        /\ form = 1 => b[n + 2] = l[2]
        /\ form = 2 => b[n + 2] = l[2] /\ b[n + 3] = l[3]
    BY <1>8, <2>1
  <2> QED
    BY <1>6, <2>2, SMT DEF LengthIs
<1> QED
  BY <1>1, <1>5, <1>6, <1>7a, <1>8, <1>9, <1>10, <1>11, Zenon DEF n, v

\* The bytes of a field of one byte of padding.
LEMMA PaddingBytes ==
  ASSUME NEW f, f \in {Padding(0), Padding(255)}
  PROVE  /\ f.kind = "padding" /\ Bytes(f) \in Seq(Octet) /\ Len(Bytes(f)) = 1
         /\ IsPadding(Bytes(f)[1])
<1>1. PICK x \in {0, 255} : f = Padding(x)
  OBVIOUS
<1>2. f.kind = "padding" /\ f.tag = <<x>>
  BY <1>1 DEF Padding
<1>3. Bytes(f) = <<x>>
  BY <1>2 DEF Bytes
<1>4. x \in Octet /\ IsPadding(x)
  BY DEF Octet, IsPadding
<1> QED
  BY <1>2, <1>3, <1>4

\* A field is a byte of padding or an object.
LEMMA FieldIs ==
  ASSUME NEW f, IsField(f)
  PROVE  /\ Bytes(f) \in Seq(Octet)
         /\ f.kind = "padding" \/ f.kind = "object"
         /\ f.kind = "padding" => Len(Bytes(f)) = 1 /\ IsPadding(Bytes(f)[1])
         /\ f.kind = "object" => Encodes(Bytes(f), f.tag, f.form, f.value)
<1>1. CASE f \in {Padding(0), Padding(255)}
  <2>1. /\ f.kind = "padding" /\ Bytes(f) \in Seq(Octet) /\ Len(Bytes(f)) = 1
        /\ IsPadding(Bytes(f)[1])
    BY <1>1, PaddingBytes
  <2>2. f.kind # "object"
    BY <2>1
  <2> QED
    BY <2>1, <2>2, Zenon
<1>2. CASE f \notin {Padding(0), Padding(255)}
  <2>1. f = Object(f.tag, f.form, f.value)
    BY <1>2 DEF IsField
  <2>2. f.kind = "object" /\ f.kind # "padding"
    BY <2>1 DEF Object
  <2>3. Encodes(Bytes(f), f.tag, f.form, f.value)
    BY <1>2, <2>2 DEF IsField, Bytes, Encodes
  <2>4. Bytes(f) \in Seq(Octet)
    BY <2>3, ObjectBytes
  <2> QED
    BY <2>2, <2>3, <2>4, Zenon
<1> QED
  BY <1>1, <1>2

\* A stretch of a sequence, element by element, and sequences that agree.
LEMMA Stretch ==
  ASSUME NEW O, NEW s \in Seq(O), NEW i \in Nat, NEW j \in Nat, 1 <= i, i <= j + 1, j <= Len(s)
  PROVE  /\ SubSeq(s, i, j) \in Seq(O) /\ Len(SubSeq(s, i, j)) = j - i + 1
         /\ \A k \in 1 .. j - i + 1 : SubSeq(s, i, j)[k] = s[i + k - 1]
OBVIOUS

\* Sequences with the same elements are the same.
LEMMA SameElements ==
  ASSUME NEW O, NEW s \in Seq(O), NEW t \in Seq(O), Len(s) = Len(t),
         \A k \in 1 .. Len(s) : s[k] = t[k]
  PROVE  s = t
OBVIOUS

-----------------------------------------------------------------------------
(***************************************************************************)
(* Every body is one of the texts.                                         *)
(***************************************************************************)
(* Every body is one of the texts.                                         *)
(***************************************************************************)
\* The elements of two sequences, one after the other.
Halves(w, x, y, O) ==
  /\ w \in Seq(O) /\ Len(w) = Len(x) + Len(y)
  /\ \A j \in 1 .. Len(x) : w[j] = x[j]
  /\ \A j \in 1 .. Len(y) : w[Len(x) + j] = y[j]

\* A sequence, cut in two, and a longer first part.
CutAt(s, p, r, O) ==
  /\ SubSeq(s, 1, p) \in Seq(O) /\ Len(SubSeq(s, 1, p)) = p
  /\ r \in Seq(O) /\ Len(r) = Len(s) - p
  /\ Cat(SubSeq(s, 1, p), r) = s
  /\ \A n \in 0 .. Len(r) : Cat(SubSeq(s, 1, p), SubSeq(r, 1, n)) = SubSeq(s, 1, p + n)

\* Lists of fields, and their bytes.
SomeObject == {Object(a, n, v) : a \in Seq(Octet), n \in 0 .. 2, v \in Seq(Octet)}
Field == {Padding(0), Padding(255)} \cup SomeObject
ListOfFields == {q \in Seq(Field) : \A i \in 1 .. Len(q) : IsField(q[i])}
PartsOf(q) == [i \in DOMAIN q |-> Bytes(q[i])]

\* Every sequence of bytes is the body of a text.  So the grammar by which
\* DecodesAsMeant judges fs_parse_fcp leaves no body of a CREATE FILE command
\* out: what the parser makes of each is decided by the reading of that text.
THEOREM EveryBodyIsAText ==
  \A b \in Seq(Octet) : \E t : IsText(t) /\ t.file = {} /\ Body(t) = b
\* So it is with a concatenation.
<1>CatHalves.
    ASSUME NEW O, NEW x \in Seq(O), NEW y \in Seq(O)
    PROVE  Halves(Cat(x, y), x, y, O)
  BY <1>CatHalves DEF Cat, Halves
\* A sequence of one element.
<1>OneElement.
    ASSUME NEW O, NEW w \in Seq(O), Len(w) = 1
    PROVE  w = <<w[1]>>
  BY <1>OneElement
\* It can be cut anywhere.
<1>CutInTwo.
    ASSUME NEW O, NEW s \in Seq(O), NEW p \in 0 .. Len(s), NEW r, r = SubSeq(s, p + 1, Len(s))
    PROVE  CutAt(s, p, r, O)
  <2> DEFINE a == SubSeq(s, 1, p)
  <2>1. /\ a \in Seq(O) /\ Len(a) = p /\ r \in Seq(O) /\ Len(r) = Len(s) - p
        /\ \A j \in 1 .. p : a[j] = s[j]
        /\ \A j \in 1 .. Len(s) - p : r[j] = s[p + j]
    <3>1. /\ p \in Nat /\ p + 1 \in Nat /\ Len(s) \in Nat /\ p <= Len(s) /\ 1 <= p + 1
          /\ Len(s) - (p + 1) + 1 = Len(s) - p /\ p - 1 + 1 = p
          /\ p + 1 <= Len(s) + 1 /\ 1 <= 1 /\ Len(s) <= Len(s) /\ 1 \in Nat
      OBVIOUS
    <3>2. a \in Seq(O) /\ Len(a) = p /\ \A j \in 1 .. p : a[j] = s[1 + j - 1]
      BY <3>1, Stretch
    <3>3. /\ r \in Seq(O) /\ Len(r) = Len(s) - p
          /\ \A j \in 1 .. Len(s) - p : r[j] = s[(p + 1) + j - 1]
      <4>1. PICK i, k : i = p + 1 /\ k = Len(s)
        OBVIOUS
      <4>2. i \in Nat /\ k \in Nat /\ 1 <= i /\ i <= k + 1 /\ k <= Len(s) /\ k - i + 1 = Len(s) - p
        BY <3>1, <4>1
      <4>3. r = SubSeq(s, i, k)
        BY <1>CutInTwo, <4>1
      <4>4. /\ SubSeq(s, i, k) \in Seq(O) /\ Len(SubSeq(s, i, k)) = k - i + 1
            /\ \A j \in 1 .. k - i + 1 : SubSeq(s, i, k)[j] = s[i + j - 1]
        BY <4>2, Stretch
      <4>5. r \in Seq(O) /\ Len(r) = Len(s) - p /\ \A j \in 1 .. Len(s) - p : r[j] = s[i + j - 1]
        BY <4>2, <4>3, <4>4, Zenon
      <4> QED
        BY <4>1, <4>5, Zenon
    <3>4. \A j \in Nat : 1 + j - 1 = j /\ (p + 1) + j - 1 = p + j
      BY <3>1
    <3>5. /\ \A j \in 1 .. p : j \in Nat
          /\ \A j \in 1 .. Len(s) - p : j \in Nat
      OBVIOUS
    <3> QED
      BY <3>2, <3>3, <3>4, <3>5
  <2> HIDE DEF a
  <2>2. ASSUME NEW n \in 0 .. Len(r) PROVE Cat(a, SubSeq(r, 1, n)) = SubSeq(s, 1, p + n)
    <3> DEFINE c == SubSeq(r, 1, n)
               u == Cat(a, c)
               v == SubSeq(s, 1, p + n)
    <3>1. n \in Nat /\ p \in Nat /\ p + n \in Nat /\ p + n <= Len(s) /\ n <= Len(r)
      BY <2>1
    <3>2. c \in Seq(O) /\ Len(c) = n /\ \A j \in 1 .. n : c[j] = r[j]
      BY <2>1, <3>1
    <3>3. v \in Seq(O) /\ Len(v) = p + n /\ \A j \in 1 .. p + n : v[j] = s[j]
      BY <3>1
    <3> HIDE DEF c, v
    <3>4. /\ u \in Seq(O) /\ Len(u) = p + n
          /\ \A j \in 1 .. p : u[j] = a[j]
          /\ \A j \in 1 .. n : u[p + j] = c[j]
      <4>1. a \in Seq(O) /\ c \in Seq(O)
        BY <2>1, <3>2
      <4>2. Halves(u, a, c, O)
        BY <4>1, <1>CatHalves
      <4> HIDE DEF u
      <4> QED
        BY <2>1, <3>2, <4>2, Zenon DEF Halves
    <3> HIDE DEF u
    <3>5. ASSUME NEW k \in 1 .. p + n PROVE u[k] = v[k]
      <4>1. CASE k <= p
        <5>1. k \in 1 .. p
          BY <3>1, <4>1
        <5> QED
          BY <2>1, <3>3, <3>4, <5>1
      <4>2. CASE k > p
        <5>1. PICK j : j = k - p
          OBVIOUS
        <5>2. j \in 1 .. n /\ k = p + j /\ j \in 1 .. Len(s) - p
          BY <2>1, <3>1, <4>2, <5>1
        <5>3. u[k] = c[j] /\ c[j] = r[j] /\ r[j] = s[k]
          BY <2>1, <3>2, <3>4, <5>2
        <5> QED
          BY <3>3, <5>3
      <4> QED
        BY <3>1, <4>1, <4>2
    <3>6. u = v
      BY <3>3, <3>4, <3>5, SameElements
    <3> QED
      BY <3>6 DEF u, v, c
  <2>3. SubSeq(r, 1, Len(r)) = r /\ SubSeq(s, 1, p + Len(r)) = s /\ Len(r) \in 0 .. Len(r)
    <3>1. p + Len(r) = Len(s) /\ Len(r) \in Nat
      BY <2>1
    <3>2. SubSeq(s, 1, Len(s)) = s
      OBVIOUS
    <3>3. SubSeq(r, 1, Len(r)) = r
      BY <2>1
    <3> QED
      <4>1. SubSeq(s, 1, p + Len(r)) = s
        BY <3>1, <3>2, Zenon
      <4>2. Len(r) \in 0 .. Len(r)
        BY <3>1
      <4> QED
        BY <3>3, <4>1, <4>2
  <2>4. Cat(a, r) = s
    BY <2>2, <2>3
  <2> QED
    BY <2>1, <2>2, <2>4 DEF a, CutAt
\* A field is a member of that set.
<1>FieldType.
    ASSUME NEW f, IsField(f)
    PROVE  f \in Field
  <2>1. CASE f \in {Padding(0), Padding(255)}
    BY <2>1 DEF Field
  <2>2. CASE /\ f = Object(f.tag, f.form, f.value)
             /\ f.tag \in Seq(Octet) /\ f.value \in Seq(Octet) /\ Fits(f.form, Len(f.value))
    <3>1. f.form \in 0 .. 2
      BY <2>2 DEF Fits
    <3> QED
      <4>1. \E a \in Seq(Octet), n \in 0 .. 2, v \in Seq(Octet) : f = Object(a, n, v)
        BY <2>2, <3>1, Zenon
      <4>2. f \in SomeObject
        BY <4>1 DEF SomeObject
      <4> QED
        BY <4>2 DEF Field
  <2> QED
    BY <1>FieldType, <2>1, <2>2 DEF IsField
\* What the bytes of a list of fields are.
<1>PartsType.
    ASSUME NEW q \in ListOfFields
    PROVE  /\ Len(q) \in Nat /\ DOMAIN q = 1 .. Len(q)
           /\ PartsOf(q) \in Seq(Seq(Octet)) /\ Len(PartsOf(q)) = Len(q)
           /\ \A i \in 1 .. Len(q) : PartsOf(q)[i] = Bytes(q[i]) /\ IsField(q[i])
           /\ FlattenSeq(PartsOf(q)) \in Seq(Octet)
           /\ UpTo(PartsOf(q), Len(q)) = FlattenSeq(PartsOf(q))
  <2>1. q \in Seq(Field) /\ \A i \in 1 .. Len(q) : IsField(q[i])
    BY DEF ListOfFields
  <2>2. Len(q) \in Nat /\ DOMAIN q = 1 .. Len(q)
    BY <2>1
  <2>3. \A i \in 1 .. Len(q) : Bytes(q[i]) \in Seq(Octet)
    BY <2>1, FieldIs
  <2> DEFINE P == PartsOf(q)
             T == Seq(Octet)
  <2>4. P = [i \in 1 .. Len(q) |-> Bytes(q[i])]
    BY <2>2 DEF PartsOf
  <2>5. P \in Seq(T) /\ Len(P) = Len(q) /\ \A i \in 1 .. Len(q) : P[i] = Bytes(q[i])
    <3> HIDE DEF P, T
    <3>1. \A i \in 1 .. Len(q) : Bytes(q[i]) \in T
      BY <2>3 DEF T
    <3> QED
      BY <2>2, <2>4, <3>1
  <2>6. FlattenSeq(P) \in Seq(Octet) /\ UpTo(P, Len(q)) = FlattenSeq(P)
    <3>1. Len(P) \in 0 .. Len(P)
      BY <2>2, <2>5
    <3> HIDE DEF P
    <3> QED
      BY <2>5, <3>1, UpToFacts
  <2> QED
    BY <2>1, <2>2, <2>5, <2>6
\* One field more, one part more.
<1>PartsGrow.
    ASSUME NEW q \in ListOfFields, NEW f, IsField(f)
    PROVE  /\ Append(q, f) \in ListOfFields
           /\ FlattenSeq(PartsOf(Append(q, f))) = Cat(FlattenSeq(PartsOf(q)), Bytes(f))
  <2> DEFINE r == Append(q, f)
             n == Len(q)
             P == PartsOf(q)
             R == PartsOf(r)
  <2>1. f \in Field /\ q \in Seq(Field) /\ n \in Nat /\ \A i \in 1 .. n : IsField(q[i])
    BY <1>PartsGrow, <1>FieldType DEF ListOfFields
  <2>2. /\ r \in Seq(Field) /\ Len(r) = n + 1
        /\ \A i \in 1 .. n : r[i] = q[i]
        /\ r[n + 1] = f
    BY <2>1
  <2> HIDE DEF r, n
  <2>3. \A i \in 1 .. n + 1 : i \in 1 .. n \/ i = n + 1
    BY <2>1
  <2>4. \A i \in 1 .. n + 1 : IsField(r[i])
    BY <1>PartsGrow, <2>1, <2>2, <2>3
  <2>5. r \in ListOfFields
    BY <2>2, <2>4 DEF ListOfFields
  <2>6. /\ P \in Seq(Seq(Octet)) /\ Len(P) = n
        /\ \A i \in 1 .. n : P[i] = Bytes(q[i])
    BY <1>PartsType DEF n
  <2>7. /\ R \in Seq(Seq(Octet)) /\ Len(R) = n + 1
        /\ \A i \in 1 .. n + 1 : R[i] = Bytes(r[i])
        /\ UpTo(R, n + 1) = FlattenSeq(R)
    <3>1. /\ R \in Seq(Seq(Octet)) /\ Len(R) = Len(r)
          /\ \A i \in 1 .. Len(r) : R[i] = Bytes(r[i])
          /\ UpTo(R, Len(r)) = FlattenSeq(R)
      BY <2>5, <1>PartsType
    <3> HIDE DEF R
    <3> QED
      BY <2>2, <3>1, Zenon
  <2> HIDE DEF P, R
  <2>8. UpTo(R, n + 1) = Cat(UpTo(R, n), Bytes(f))
    <3>1. n + 1 \in 1 .. Len(R) /\ (n + 1) - 1 = n
      BY <2>1, <2>7
    <3>2. UpTo(R, n + 1) = Cat(UpTo(R, (n + 1) - 1), R[n + 1])
      BY <2>7, <3>1, UpToFacts
    <3>3. R[n + 1] = Bytes(f)
      BY <2>2, <2>7, <3>1
    <3> QED
      BY <3>1, <3>2, <3>3
  <2>9. SubSeq(R, 1, n) = P
    <3> DEFINE W == SubSeq(R, 1, n)
               T == Seq(Octet)
    <3>1. W \in Seq(T) /\ Len(W) = n /\ \A i \in 1 .. n : W[i] = R[i]
      <4>1. R \in Seq(T) /\ Len(R) = n + 1
        BY <2>7
      <4> HIDE DEF T
      <4> QED
        BY <2>1, <4>1
    <3>2. \A i \in 1 .. n : i \in 1 .. n + 1
      BY <2>1
    <3>3. \A i \in 1 .. n : W[i] = P[i]
      BY <2>2, <2>6, <2>7, <3>1, <3>2, Zenon
    <3>4. P \in Seq(T) /\ Len(P) = n
      BY <2>6
    <3> HIDE DEF W, T
    <3>5. W = P
      BY <3>1, <3>3, <3>4, SameElements
    <3> QED
      BY <3>5 DEF W
  <2>10. UpTo(R, n) = FlattenSeq(P)
    BY <2>9 DEF UpTo
  <2> QED
    BY <2>5, <2>7, <2>8, <2>10 DEF r, P, R
\* Every sequence of bytes is the bytes of some fields and a tail, and the tail is
\* empty or broken: the fields that make up the longest possible part of it leave
\* nothing from which one more could be read.
<1>ReadsAsFields.
    ASSUME NEW s \in Seq(Octet)
    PROVE  \E q \in ListOfFields, tail \in Seq(Octet) :
             (tail # <<>> => IsBroken(tail)) /\ s = Cat(FlattenSeq(PartsOf(q)), tail)
  <2> DEFINE T == {m \in Nat : m <= Len(s) /\ \E q \in ListOfFields :
                                 FlattenSeq(PartsOf(q)) = SubSeq(s, 1, Len(s) - m)}
  <2>1. Len(s) \in T
    <3>1. <<>> \in ListOfFields
      BY DEF ListOfFields
    <3>2. FlattenSeq(PartsOf(<<>>)) = <<>>
      <4>1. PartsOf(<<>>) \in Seq(Seq(Octet)) /\ Len(PartsOf(<<>>)) = 0
        BY <3>1, <1>PartsType
      <4>2. UpTo(PartsOf(<<>>), 0) = <<>> /\ UpTo(PartsOf(<<>>), 0) = FlattenSeq(PartsOf(<<>>))
        BY <4>1, UpToFacts
      <4> QED
        BY <4>2
    <3>3. Len(s) \in Nat /\ Len(s) - Len(s) = 0 /\ SubSeq(s, 1, 0) = <<>>
      OBVIOUS
    <3>4. Len(s) <= Len(s)
      BY <3>3
    <3>5. FlattenSeq(PartsOf(<<>>)) = SubSeq(s, 1, Len(s) - Len(s))
      BY <3>2, <3>3
    <3> QED
      BY <3>1, <3>3, <3>4, <3>5, Zenon
  <2>2. PICK m \in T : \A k \in T : m <= k
    <3>1. T \in SUBSET Nat
      OBVIOUS
    <3> HIDE DEF T
    <3> QED
      BY <2>1, <3>1, Least
  <2>3. PICK q \in ListOfFields : FlattenSeq(PartsOf(q)) = SubSeq(s, 1, Len(s) - m)
    BY <2>2
  <2>4. PICK p : p = Len(s) - m
    OBVIOUS
  <2>5. m \in Nat /\ m <= Len(s) /\ Len(s) \in Nat /\ p \in 0 .. Len(s) /\ m = Len(s) - p
    BY <2>2, <2>4
  <2>6. PICK r : r = SubSeq(s, p + 1, Len(s))
    OBVIOUS
  <2> DEFINE a == FlattenSeq(PartsOf(q))
  <2>7. a = SubSeq(s, 1, p)
    BY <2>3, <2>4
  <2>8. /\ r \in Seq(Octet) /\ Len(r) = m /\ Cat(a, r) = s
        /\ \A n \in 0 .. m : Cat(a, SubSeq(r, 1, n)) = SubSeq(s, 1, p + n)
    <3>1. /\ r \in Seq(Octet) /\ Len(r) = Len(s) - p
          /\ Cat(SubSeq(s, 1, p), r) = s
          /\ \A n \in 0 .. Len(r) : Cat(SubSeq(s, 1, p), SubSeq(r, 1, n)) = SubSeq(s, 1, p + n)
      <4>1. CutAt(s, p, r, Octet)
        BY <2>5, <2>6, <1>CutInTwo
      <4> QED
        BY <4>1, Zenon DEF CutAt
    <3> HIDE DEF a
    <3> QED
      BY <2>5, <2>7, <3>1, Zenon
  \* No field can be read from the front of the tail.
  <2>9. ASSUME NEW n \in 1 .. m, NEW f, IsField(f), Bytes(f) = SubSeq(r, 1, n) PROVE FALSE
    <3>1. Append(q, f) \in ListOfFields /\ FlattenSeq(PartsOf(Append(q, f))) = Cat(a, Bytes(f))
      BY <2>9, <1>PartsGrow
    <3>2. n \in 0 .. m
      BY <2>5
    <3>3. PICK k : k = m - n
      OBVIOUS
    <3>4. k \in Nat /\ k <= Len(s) /\ k < m /\ p + n = Len(s) - k
      BY <2>5, <3>3
    <3>5. Cat(a, Bytes(f)) = SubSeq(s, 1, Len(s) - k)
      <4> HIDE DEF a
      <4> QED
        BY <2>8, <2>9, <3>2, <3>4, Zenon
    <3>6. k \in T
      <4>1. FlattenSeq(PartsOf(Append(q, f))) = SubSeq(s, 1, Len(s) - k)
        BY <3>1, <3>5, Zenon
      <4> QED
        BY <3>1, <3>4, <4>1, Zenon
    <3>7. m <= k
      BY <2>2, <3>6
    <3> QED
      BY <2>5, <3>4, <3>7
  <2>10. ASSUME r # <<>> PROVE IsBroken(r)
    <3>1. 1 \in 1 .. m /\ m >= 1
      BY <2>5, <2>8, <2>10
    <3>2. ~IsPadding(r[1])
      <4>1. SUFFICES ASSUME IsPadding(r[1]) PROVE FALSE
        OBVIOUS
      <4>2. r[1] = 0 \/ r[1] = 255
        BY <4>1 DEF IsPadding
      <4>3. SubSeq(r, 1, 1) = <<r[1]>>
        <5>1. r \in Seq(Octet) /\ Len(r) >= 1
          BY <2>8, <3>1
        <5>2. SubSeq(r, 1, 1) \in Seq(Octet) /\ Len(SubSeq(r, 1, 1)) = 1 /\ SubSeq(r, 1, 1)[1] = r[1]
          BY <5>1
        <5>3. SubSeq(r, 1, 1) = <<SubSeq(r, 1, 1)[1]>>
          BY <5>2, <1>OneElement
        <5> QED
          BY <5>2, <5>3, Zenon
      <4>4. Bytes(Padding(r[1])) = <<r[1]>>
        BY DEF Bytes, Padding
      <4>5. IsField(Padding(r[1]))
        BY <4>2 DEF IsField
      <4> QED
        BY <2>9, <3>1, <4>3, <4>4, <4>5
    <3>3. ASSUME NEW n \in 1 .. Len(r), IsObject(SubSeq(r, 1, n)) PROVE FALSE
      <4>1. \E f : IsField(f) /\ Bytes(f) = SubSeq(r, 1, n)
        BY <3>3, Zenon DEF IsObject
      <4>2. n \in 1 .. m
        BY <2>8
      <4> QED
        BY <2>9, <4>1, <4>2
    <3> QED
      BY <2>10, <3>2, <3>3 DEF IsBroken
  <2> QED
    BY <2>8, <2>10
\* What begins with x is x and something after it.
<1>PrefixAndRest.
    ASSUME NEW O, NEW x \in Seq(O), NEW y \in Seq(O), Len(x) <= Len(y),
           \A i \in 1 .. Len(x) : y[i] = x[i]
    PROVE  \E r \in Seq(O) : y = Cat(x, r)
  <2>1. PICK p, r : p = Len(x) /\ r = SubSeq(y, p + 1, Len(y))
    OBVIOUS
  <2>2. p \in 0 .. Len(y) /\ p \in Nat
    BY <1>PrefixAndRest, <2>1
  <2>3. CutAt(y, p, r, O)
    BY <2>1, <2>2, <1>CutInTwo
  <2>4. SubSeq(y, 1, p) = x
    <3> DEFINE w == SubSeq(y, 1, p)
    <3>1. w \in Seq(O) /\ Len(w) = p /\ \A i \in 1 .. p : w[i] = y[i]
      BY <2>2
    <3> HIDE DEF w
    <3>2. Len(w) = Len(x) /\ \A i \in 1 .. Len(w) : w[i] = x[i]
      BY <1>PrefixAndRest, <2>1, <3>1, Zenon
    <3>3. w = x
      BY <3>1, <3>2, SameElements
    <3> QED
      BY <3>3 DEF w
  <2> QED
    BY <2>3, <2>4, Zenon DEF CutAt
\* A field with the tag of the template is an object.
<1>TemplateField.
    ASSUME NEW f, IsField(f), f.tag = <<TAG_FCP_TEMPLATE>>
    PROVE  /\ f = Object(<<TAG_FCP_TEMPLATE>>, f.form, f.value)
           /\ f.value \in Seq(Octet) /\ Fits(f.form, Len(f.value))
  <2>1. CASE f \in {Padding(0), Padding(255)}
    <3>1. f.tag = <<0>> \/ f.tag = <<255>>
      BY <2>1 DEF Padding
    <3>2. f.tag[1] = 98
      BY <1>TemplateField DEF TAG_FCP_TEMPLATE
    <3> QED
      BY <3>1, <3>2
  <2>2. CASE /\ f = Object(f.tag, f.form, f.value)
             /\ f.value \in Seq(Octet) /\ Fits(f.form, Len(f.value))
    BY <1>TemplateField, <2>2, Zenon
  <2> QED
    BY <1>TemplateField, <2>1, <2>2 DEF IsField
\* The bytes of fields that are all padding.
<1>PaddingBefore.
    ASSUME NEW q \in ListOfFields, NEW i \in 1 .. Len(q),
           \A j \in 1 .. i - 1 : q[j].kind # "object"
    PROVE  UpTo(PartsOf(q), i - 1) \in Seq({0, 255})
  <2> DEFINE P == PartsOf(q)
             X == {0, 255}
             W == SubSeq(P, 1, i - 1)
  <2>1. /\ Len(q) \in Nat /\ P \in Seq(Seq(Octet)) /\ Len(P) = Len(q)
        /\ \A j \in 1 .. Len(q) : P[j] = Bytes(q[j]) /\ IsField(q[j])
    BY <1>PartsType
  <2> HIDE DEF P
  <2>2. ASSUME NEW j \in 1 .. i - 1 PROVE P[j] \in Seq(X)
    <3>1. j \in 1 .. Len(q)
      BY <2>1
    <3>2. q[j].kind # "object"
      BY <1>PaddingBefore
    <3>3. q[j] \in {Padding(0), Padding(255)}
      <4>1. q[j] \in {Padding(0), Padding(255)} \/ q[j] = Object(q[j].tag, q[j].form, q[j].value)
        BY <2>1, <3>1, Zenon DEF IsField
      <4>2. q[j] = Object(q[j].tag, q[j].form, q[j].value) => q[j].kind = "object"
        BY DEF Object
      <4> QED
        BY <3>2, <4>1, <4>2, Zenon
    <3>4. Bytes(q[j]) = <<0>> \/ Bytes(q[j]) = <<255>>
      <4>1. Bytes(Padding(0)) = <<0>> /\ Bytes(Padding(255)) = <<255>>
        BY DEF Bytes, Padding
      <4>2. q[j] = Padding(0) \/ q[j] = Padding(255)
        BY <3>3, Zenon
      <4> QED
        BY <4>1, <4>2, Zenon
    <3>5. <<0>> \in Seq(X) /\ <<255>> \in Seq(X)
      OBVIOUS
    <3> QED
      BY <2>1, <3>1, <3>4, <3>5, Zenon
  <2> HIDE DEF X
  <2>3. /\ W \in Seq(Seq(Octet)) /\ Len(W) = i - 1 /\ i - 1 \in Nat
        /\ \A j \in 1 .. i - 1 : W[j] = P[j]
    <3> DEFINE T == Seq(Octet)
    <3>1. P \in Seq(T)
      BY <2>1
    <3> HIDE DEF T
    <3>2. W \in Seq(T) /\ Len(W) = i - 1 /\ i - 1 \in Nat /\ \A j \in 1 .. i - 1 : W[j] = P[j]
      BY <2>1, <3>1
    <3> QED
      BY <3>2 DEF T
  <2>4. W \in Seq(Seq(X))
    <3> DEFINE S == Seq(X)
               T == Seq(Octet)
    <3>1. \A j \in 1 .. Len(W) : W[j] \in S
      BY <2>2, <2>3, Zenon
    <3>2. W \in Seq(T)
      BY <2>3
    <3> HIDE DEF W, S, T
    <3>3. W \in Seq(S)
      BY <3>1, <3>2
    <3> QED
      BY <3>3 DEF S
  <2>5. Len(W) \in 0 .. Len(W)
    BY <2>3
  <2> HIDE DEF W
  <2>6. FlattenSeq(W) \in Seq(X)
    BY <2>4, <2>5, UpToFacts
  <2> QED
    BY <2>6 DEF UpTo, W, P, X
<1> SUFFICES ASSUME NEW b \in Seq(Octet)
             PROVE  \E t : IsText(t) /\ t.file = {} /\ Body(t) = b
  OBVIOUS
<1> DEFINE Text(q, tail, w, x, n, y) ==
             [fields |-> q, tail |-> tail, wrapped |-> w, before |-> x, form |-> n,
              after |-> y, file |-> {}]
<1>1. PICK q \in ListOfFields, tail \in Seq(Octet) :
             (tail # <<>> => IsBroken(tail)) /\ b = Cat(FlattenSeq(PartsOf(q)), tail)
  BY <1>ReadsAsFields
<1>2. ASSUME NEW s \in ListOfFields, NEW e, NEW w, NEW x, NEW n, NEW y
      PROVE  Inner(Text(s, e, w, x, n, y)) = Cat(FlattenSeq(PartsOf(s)), e)
  BY DEF Inner, PartsOf, Cat
<1>3. ASSUME NEW s \in ListOfFields
      PROVE  /\ DOMAIN s = 1 .. Len(s) /\ Len(s) \in Nat
             /\ \A i \in DOMAIN s : IsField(s[i])
  BY <1>PartsType, Zenon
<1> DEFINE bare == Text(q, tail, FALSE, <<>>, 0, <<>>)
<1>4. CASE BareStart(bare)
  <2>1. /\ bare.fields = q /\ bare.tail = tail /\ bare.wrapped = FALSE /\ bare.file = {}
    OBVIOUS
  <2>2. Inner(bare) = b
    BY <1>1, <1>2, Zenon
  <2> HIDE DEF bare
  <2>3. IsText(bare)
    BY <1>1, <1>3, <1>4, <2>1 DEF IsText
  <2>4. Body(bare) = b
    BY <2>1, <2>2, Zenon DEF Body
  <2> QED
    BY <2>1, <2>3, <2>4, Zenon
<1>5. CASE ~BareStart(bare)
  <2>1. PICK i \in DOMAIN q :
             q[i].tag = <<TAG_FCP_TEMPLATE>> /\ \A j \in 1 .. i - 1 : q[j].kind # "object"
    <3>1. bare.fields = q
      OBVIOUS
    <3> HIDE DEF bare
    <3> QED
      BY <1>5, <3>1, Zenon DEF BareStart
  <2> DEFINE P == PartsOf(q)
  <2>2. /\ Len(q) \in Nat /\ P \in Seq(Seq(Octet)) /\ Len(P) = Len(q)
        /\ i \in 1 .. Len(q) /\ P[i] = Bytes(q[i]) /\ IsField(q[i])
        /\ FlattenSeq(P) \in Seq(Octet) /\ UpTo(P, Len(q)) = FlattenSeq(P)
    BY <2>1, <1>PartsType
  <2>3. PICK form, value : form = q[i].form /\ value = q[i].value
    OBVIOUS
  <2>4. /\ q[i] = Object(<<TAG_FCP_TEMPLATE>>, form, value)
        /\ value \in Seq(Octet) /\ Fits(form, Len(value))
    BY <2>1, <2>2, <2>3, <1>TemplateField
  <2>5. PICK s \in ListOfFields, e \in Seq(Octet) :
             (e # <<>> => IsBroken(e)) /\ value = Cat(FlattenSeq(PartsOf(s)), e)
    BY <2>4, <1>ReadsAsFields
  <2>6. PICK x : x = UpTo(P, i - 1) /\ x \in Seq({0, 255})
    BY <2>1, <2>2, <1>PaddingBefore
  <2> HIDE DEF P
  <2>7. UpTo(P, i) = Cat(x, P[i]) /\ UpTo(P, i) \in Seq(Octet)
    <3>1. i \in 1 .. Len(P) /\ i \in 0 .. Len(P)
      BY <2>2
    <3> QED
      BY <2>2, <2>6, <3>1, UpToFacts
  <2>8. PICK z : z = UpTo(P, i)
    OBVIOUS
  <2>9. Len(z) <= Len(b) /\ \A j \in 1 .. Len(z) : b[j] = z[j]
    <3>1. PICK v : v = FlattenSeq(P)
      OBVIOUS
    <3>2. Len(z) <= Len(v) /\ \A j \in 1 .. Len(z) : v[j] = z[j]
      <4>1. i \in 0 .. Len(P) /\ Len(q) \in 0 .. Len(P) /\ i <= Len(q)
        BY <2>2
      <4>2. /\ Len(UpTo(P, i)) <= Len(UpTo(P, Len(q)))
            /\ \A j \in 1 .. Len(UpTo(P, i)) : UpTo(P, Len(q))[j] = UpTo(P, i)[j]
        BY <2>2, <4>1, UpToPrefix
      <4> QED
        BY <2>2, <2>8, <3>1, <4>2, Zenon
    <3>3. b = Cat(v, tail) /\ v \in Seq(Octet) /\ z \in Seq(Octet)
      BY <1>1, <2>2, <2>7, <2>8, <3>1, Zenon DEF P
    <3>4. Halves(b, v, tail, Octet)
      BY <3>3, <1>CatHalves
    <3>5. /\ Len(b) = Len(v) + Len(tail) /\ Len(tail) \in Nat /\ Len(v) \in Nat
          /\ Len(z) \in Nat
      BY <3>3, <3>4 DEF Halves
    <3>6. \A j \in 1 .. Len(z) : j \in 1 .. Len(v)
      BY <3>2, <3>5
    <3>7. \A j \in 1 .. Len(z) : b[j] = z[j]
      BY <3>2, <3>4, <3>6, Zenon DEF Halves
    <3> QED
      BY <3>2, <3>5, <3>7
  <2>10. PICK y \in Seq(Octet) : b = Cat(z, y)
    <3>1. z \in Seq(Octet)
      BY <2>7, <2>8
    <3> QED
      BY <2>9, <3>1, <1>PrefixAndRest
  <2> DEFINE t == Text(s, e, TRUE, x, form, y)
  <2>11. /\ t.fields = s /\ t.tail = e /\ t.wrapped = TRUE /\ t.file = {}
         /\ t.before = x /\ t.form = form /\ t.after = y
    OBVIOUS
  <2>12. Inner(t) = value
    BY <1>2, <2>5, Zenon
  <2> HIDE DEF t
  <2>13. IsText(t)
    <3>1. /\ DOMAIN s = 1 .. Len(s) /\ Len(s) \in Nat
          /\ \A k \in DOMAIN s : IsField(s[k])
      BY <1>3
    <3>2. Fits(t.form, Len(Inner(t)))
      BY <2>4, <2>11, <2>12
    <3> QED
      BY <2>5, <2>6, <2>10, <2>11, <3>1, <3>2, Zenon DEF IsText
  <2>14. Body(t) = b
    <3>1. Body(t) = x \o Bytes(q[i]) \o y
      BY <2>4, <2>11, <2>12, Zenon DEF Body
    <3>2. Body(t) = Cat(Cat(x, Bytes(q[i])), y)
      BY <3>1, Zenon DEF Cat
    <3> QED
      BY <2>2, <2>7, <2>8, <2>10, <3>2, Zenon
  <2> QED
    BY <2>11, <2>13, <2>14, Zenon
<1> QED
  BY <1>4, <1>5

-----------------------------------------------------------------------------
(***************************************************************************)
(* The meaning of one more field.                                          *)
(***************************************************************************)
\* The bytes of each field, and how many fields there are.
FieldBytes(t) == [i \in DOMAIN t.fields |-> Bytes(t.fields[i])]
Count(t) == Len(t.fields)

\* The bytes of the fields of a text.
LEMMA FieldsAre ==
  ASSUME NEW t, IsText(t)
  PROVE  /\ Count(t) \in Nat /\ DOMAIN t.fields = 1 .. Count(t)
         /\ \A i \in 1 .. Count(t) : IsField(t.fields[i])
         /\ FieldBytes(t) \in Seq(Seq(Octet)) /\ Len(FieldBytes(t)) = Count(t)
         /\ \A i \in 1 .. Count(t) : FieldBytes(t)[i] = Bytes(t.fields[i])
         /\ t.tail \in Seq(Octet)
<1>1. /\ Count(t) \in Nat /\ DOMAIN t.fields = 1 .. Count(t)
      /\ \A i \in 1 .. Count(t) : IsField(t.fields[i])
      /\ t.tail \in Seq(Octet)
  BY DEF IsText, Count
<1>2. \A i \in 1 .. Count(t) : Bytes(t.fields[i]) \in Seq(Octet)
  BY <1>1, FieldIs, Zenon
<1>3. FieldBytes(t) = [i \in 1 .. Count(t) |-> Bytes(t.fields[i])]
  BY <1>1, Zenon DEF FieldBytes
<1> DEFINE O == Seq(Octet)
           n == Count(t)
           B == [i \in 1 .. n |-> Bytes(t.fields[i])]
<1>4. n \in Nat /\ \A i \in 1 .. n : Bytes(t.fields[i]) \in O
  BY <1>1, <1>2
<1> HIDE DEF O, n
<1>5. B \in Seq(O) /\ Len(B) = n /\ \A i \in 1 .. n : B[i] = Bytes(t.fields[i])
  BY <1>4
<1> HIDE DEF B
<1>6. FieldBytes(t) = B
  BY <1>3, Zenon DEF B, n
<1> QED
  BY <1>1, <1>5, <1>6, Zenon DEF O, n

(* The meaning of one more field.                                          *)
(***************************************************************************)
\* The places of a name among one more field.
LEMMA PlacesStep ==
  ASSUME NEW t, NEW k \in Nat, NEW name
  PROVE  /\ Places(t, name, 0) = {}
         /\ Name(t.fields[k + 1]) # name => Places(t, name, k + 1) = Places(t, name, k)
         /\ Name(t.fields[k + 1]) = name =>
              /\ Places(t, name, k + 1) # {}
              /\ Max(Places(t, name, k + 1)) = k + 1
<1>1. Places(t, name, 0) = {}
  BY DEF Places
<1>2. ASSUME Name(t.fields[k + 1]) # name
      PROVE  Places(t, name, k + 1) = Places(t, name, k)
  <2>1. 1 .. k + 1 = (1 .. k) \cup {k + 1}
    OBVIOUS
  <2> QED
    BY <1>2, <2>1 DEF Places
<1>3. ASSUME Name(t.fields[k + 1]) = name
      PROVE  Places(t, name, k + 1) # {} /\ Max(Places(t, name, k + 1)) = k + 1
  <2> DEFINE S == Places(t, name, k + 1)
  <2>1. k + 1 \in S
    BY <1>3 DEF Places
  <2>2. S \subseteq 1 .. k + 1
    BY DEF Places
  <2> HIDE DEF S
  <2>3. \A x \in S : (\A y \in S : x >= y) <=> x = k + 1
    BY <2>1, <2>2
  <2>4. Max(S) = k + 1
    BY <2>1, <2>3 DEF Max
  <2> QED
    BY <2>1, <2>4 DEF S
<1> QED
  BY <1>1, <1>2, <1>3

\* What a name stands for after one more field.
LEMMA SaidStep ==
  ASSUME NEW t, NEW k \in Nat, NEW name, NEW default
  PROVE  /\ Said(t, name, 0, default) = default
         /\ Name(t.fields[k + 1]) # name =>
              Said(t, name, k + 1, default) = Said(t, name, k, default)
         /\ \A w : Name(t.fields[k + 1]) = name /\ Says(t.fields[k + 1]) = {w} =>
                     Said(t, name, k + 1, default) = w
<1>1. Said(t, name, 0, default) = default
  BY PlacesStep DEF Said
<1>2. ASSUME Name(t.fields[k + 1]) # name
      PROVE  Said(t, name, k + 1, default) = Said(t, name, k, default)
  <2>1. Places(t, name, k + 1) = Places(t, name, k)
    BY <1>2, PlacesStep
  <2> DEFINE W(P) == IF P = {} THEN default ELSE CHOOSE v \in Says(t.fields[Max(P)]) : TRUE
  <2>2. /\ Said(t, name, k + 1, default) = W(Places(t, name, k + 1))
        /\ Said(t, name, k, default) = W(Places(t, name, k))
    BY DEF Said
  <2> HIDE DEF W
  <2> QED
    BY <2>1, <2>2
<1>3. ASSUME NEW w, Name(t.fields[k + 1]) = name, Says(t.fields[k + 1]) = {w}
      PROVE  Said(t, name, k + 1, default) = w
  <2>1. Places(t, name, k + 1) # {} /\ Max(Places(t, name, k + 1)) = k + 1
    BY <1>3, PlacesStep
  <2>2. Said(t, name, k + 1, default) = CHOOSE v \in {w} : TRUE
    BY <1>3, <2>1, Zenon DEF Said
  <2> QED
    BY <2>2
<1> QED
  BY <1>1, <1>2, <1>3

\* A request in which the field of a name is set.
With(r, name, w) ==
  CASE name = "type" -> [r EXCEPT !.type = w]
    [] name = "fid" -> [r EXCEPT !.file_id = w]
    [] name = "size" -> [r EXCEPT !.size = w]
    [] name = "lifecycle" -> [r EXCEPT !.lifecycle = w]
    [] name = "sfi" -> [r EXCEPT !.sfi = w]

\* An object means what it says.
LEMMA ObjectMeans ==
  ASSUME NEW t, NEW k \in Nat, NEW name \in {"type", "fid", "size", "lifecycle", "sfi"},
         Name(t.fields[k + 1]) = name, NEW w, Says(t.fields[k + 1]) = {w}
  PROVE  MeantUpTo(t, k + 1) = With(MeantUpTo(t, k), name, w)
<1> DEFINE S(x, d) == Said(t, x, k, d)
           T(x, d) == Said(t, x, k + 1, d)
<1>1. \A x, d : T(x, d) = IF x = name THEN w ELSE S(x, d)
  <2> SUFFICES ASSUME NEW x, NEW d
               PROVE  T(x, d) = IF x = name THEN w ELSE S(x, d)
    BY Zenon
  <2> QED
    BY SaidStep
<1>2. /\ MeantUpTo(t, k) = [file_id |-> S("fid", 0), type |-> S("type", "FREE"),
                            lifecycle |-> S("lifecycle", "ACTIVATED"), size |-> S("size", 0),
                            sfi |-> S("sfi", FS_NO_SFI)]
      /\ MeantUpTo(t, k + 1) = [file_id |-> T("fid", 0), type |-> T("type", "FREE"),
                                lifecycle |-> T("lifecycle", "ACTIVATED"), size |-> T("size", 0),
                                sfi |-> T("sfi", FS_NO_SFI)]
  BY DEF MeantUpTo
<1> HIDE DEF S, T
<1>3. CASE name = "type"
  BY <1>1, <1>2, <1>3 DEF With
<1>4. CASE name = "fid"
  BY <1>1, <1>2, <1>4 DEF With
<1>5. CASE name = "size"
  BY <1>1, <1>2, <1>5 DEF With
<1>6. CASE name = "lifecycle"
  BY <1>1, <1>2, <1>6 DEF With
<1>7. CASE name = "sfi"
  BY <1>1, <1>2, <1>7 DEF With
<1> QED
  BY <1>3, <1>4, <1>5, <1>6, <1>7

-----------------------------------------------------------------------------
(***************************************************************************)
(* The description of a file is a text, with the meaning of a request for  *)
(* the same file.                                                          *)
(***************************************************************************)
\* A text that describes a file, as a list of fields.
FileFields(d) ==
  <<Object(<<TAG_FILE_DESC>>, 0, <<fs_iso_descriptor_byte(d)>>),
    Object(<<TAG_FILE_ID>>, 0, <<d.file_id \div 256, d.file_id % 256>>)>>
  \o (IF fs_is_ef(d)
      THEN <<Object(<<TAG_DATA_BYTES>>, 0, <<d.size \div 256, d.size % 256>>)>> ELSE <<>>)
  \o <<Object(<<TAG_LIFE_CYCLE>>, 0, <<lifecycle_byte[d.lifecycle]>>)>>
  \o (IF fs_is_ef(d) /\ d.sfi # FS_NO_SFI
      THEN <<Object(<<TAG_SFI>>, 0, <<8 * d.sfi>>)>> ELSE <<>>)

\* The same text, as a text of the grammar.
Described(d) == [fields |-> FileFields(d), tail |-> <<>>, wrapped |-> FALSE, before |-> <<>>,
                 form |-> 0, after |-> <<>>, file |-> {}]

(* The description of a file is a text.                                    *)
(***************************************************************************)
\* The field f is the bytes b and says v under a name.
Spells(f, name, v, b) ==
  /\ IsField(f) /\ f.kind = "object" /\ f.tag # <<TAG_FCP_TEMPLATE>>
  /\ Name(f) = name /\ Says(f) = {v}
  /\ Bytes(f) = b /\ b \in Seq(Octet)

\* Field i of the text is bytes B[i] and says V[i] under the name N[i].
Listed(t, n, N, V, B) ==
  /\ DOMAIN t.fields = 1 .. n /\ Len(t.fields) = n
  /\ \A i \in 1 .. n : /\ Spells(t.fields[i], N[i], V[i], B[i])
                       /\ N[i] \in {"type", "fid", "size", "lifecycle", "sfi"}
  /\ \A i, j \in 1 .. n : N[i] = N[j] => i = j
  /\ t.tail = <<>> /\ t.wrapped = FALSE /\ t.file = {}

\* What such a text means.
ListMeans(t, n, N, V, B) ==
  /\ IsText(t) /\ Faults(t) = {}
  /\ Body(t) = FlattenSeq(FieldBytes(t))
  /\ FieldBytes(t) \in Seq(Seq(Octet)) /\ Len(FieldBytes(t)) = n
  /\ \A i \in 1 .. n : FieldBytes(t)[i] = B[i]
  /\ MeantUpTo(t, 0) = NoReq
  /\ \A i \in 0 .. n - 1 : MeantUpTo(t, i + 1) = With(MeantUpTo(t, i), N[i + 1], V[i + 1])
  /\ \A name : Places(t, name, n) # {} <=> \E i \in 1 .. n : N[i] = name

\* The concatenation of three, four and five sequences.
FlatIs(q) ==
  /\ Len(q) = 3 => FlattenSeq(q) = Cat(Cat(q[1], q[2]), q[3])
  /\ Len(q) = 4 => FlattenSeq(q) = Cat(Cat(Cat(q[1], q[2]), q[3]), q[4])
  /\ Len(q) = 5 => FlattenSeq(q) = Cat(Cat(Cat(Cat(q[1], q[2]), q[3]), q[4]), q[5])

\* A sequence with one more element.
Extends(w, s, n, x) ==
  /\ Len(w) = n + 1 /\ w[n + 1] = x
  /\ \A j \in 1 .. n : w[j] = s[j]

\* The list of fields that fs_build_fcp emits has three, four or five elements.
FieldsEnum(s, n, a, b, c, e, g) ==
  /\ DOMAIN s = 1 .. n /\ Len(s) = n
  /\ s[1] = a /\ s[2] = b /\ s[3] = c /\ (n > 3 => s[4] = e) /\ (n > 4 => s[5] = g)

\* A text is what fs_build_fcp says of a file, and it means the file.
Describes(t, d) ==
  /\ IsText(t) /\ t.file = {}
  /\ Body(t) = fcp_bytes(d) /\ Body(t) \in Seq(Octet) /\ Len(Body(t)) = fcp_len(d)
  /\ MeantSw(t) = "9000"
  /\ DOMAIN Meant(t) = DOMAIN NoReq
  /\ \A f \in DOMAIN NoReq : Meant(t)[f] = d[f]

\* A request, and the assignment of one of its fields.
Request(b, a, e, c, g) == [file_id |-> b, type |-> a, lifecycle |-> e, size |-> c, sfi |-> g]

\* A text of fields that name a type, an identifier and what goes with the type
\* is accepted, and the request is made of what they say.
Agrees(t, d) ==
  /\ MeantSw(t) = "9000"
  /\ DOMAIN Meant(t) = DOMAIN NoReq
  /\ \A f \in DOMAIN NoReq : Meant(t)[f] = d[f]

\* What fs_build_fcp says of a file is a text that means the file.
LEMMA FileIsText ==
  \A d : IsFile(d) => Describes(Described(d), d)
\* An object of one byte, in the short form,
<1>ShortObjectOne.
    ASSUME NEW tag \in 1 .. 255, tag % 32 # 31, NEW x \in 0 .. 255
    PROVE  LET f == Object(<<tag>>, 0, <<x>>)
           IN IsField(f) /\ Bytes(f) = <<tag, 1, x>> /\ Bytes(f) \in Seq(Octet)
  <2> DEFINE T == <<tag>>
             V == <<x>>
             f == Object(T, 0, V)
  <2>1. T \in Seq(Octet) /\ V \in Seq(Octet) /\ Len(T) = 1 /\ T[1] = tag /\ Len(V) = 1
    BY SMT DEF Octet
  <2>2. IsTag(T)
    BY <1>ShortObjectOne, <2>1, SMT DEF IsTag
  <2>3. Fits(0, 1) /\ LengthField(0, 1) = <<1>>
    BY SMT DEF Fits, LengthField
  <2>4. f.kind = "object" /\ f.tag = T /\ f.form = 0 /\ f.value = V
    BY Zenon DEF Object
  <2>5. IsField(f)
    <3> HIDE DEF T, V
    <3>1. f = Object(f.tag, f.form, f.value)
      BY <2>4, Zenon
    <3> HIDE DEF f
    <3>2. /\ f.tag \in Seq(Octet) /\ IsTag(f.tag)
          /\ f.value \in Seq(Octet) /\ Fits(f.form, Len(f.value))
      BY <2>1, <2>2, <2>3, <2>4, Zenon
    <3> QED
      BY <3>1, <3>2, Zenon DEF IsField
  <2>6. Bytes(f) = (T \o <<1>>) \o V
    <3> HIDE DEF T, V
    <3>1. f.kind # "padding"
      BY <2>4
    <3> HIDE DEF f
    <3> QED
      BY <2>1, <2>3, <2>4, <3>1, Zenon DEF Bytes
  <2>7. (T \o <<1>>) \o V = <<tag, 1, x>>
    <3> DEFINE L == <<1>>
               w == (T \o L) \o V
               c == <<tag, 1, x>>
    <3>1. L \in Seq(Octet) /\ Len(L) = 1 /\ L[1] = 1
      BY SMT DEF Octet
    <3>2. /\ w \in Seq(Octet) /\ Len(w) = Len(T) + Len(L) + Len(V)
          /\ \A j \in 1 .. Len(T) : w[j] = T[j]
          /\ \A j \in 1 .. Len(L) : w[Len(T) + j] = L[j]
          /\ \A j \in 1 .. Len(V) : w[Len(T) + Len(L) + j] = V[j]
      <4>1. T \in Seq(Octet) /\ L \in Seq(Octet) /\ V \in Seq(Octet)
        BY <2>1, <3>1
      <4> HIDE DEF T, V, L
      <4>2. Joins(w, T, L, V, Octet)
        BY <4>1, ThreeParts, Zenon
      <4> QED
        BY <4>2, Zenon DEF Joins
    <3>3. c \in Seq(Octet) /\ Len(c) = 3 /\ c[1] = tag /\ c[2] = 1 /\ c[3] = x
      BY SMT DEF Octet
    <3>4. V[1] = x
      BY SMT
    <3> HIDE DEF T, V, L, w
    <3>5. Len(w) = 3 /\ w[1] = tag /\ w[2] = 1 /\ w[3] = x
      BY <2>1, <3>1, <3>2, <3>4, SMT
    <3> HIDE DEF c
    <3>6. \A i \in 1 .. 3 : w[i] = c[i]
      BY <3>3, <3>5, SMT
    <3>7. w = c
      BY <3>2, <3>3, <3>5, <3>6, SameElements
    <3> QED
      BY <3>7, Zenon DEF w, c, L, T, V
  <2>8. <<tag, 1, x>> \in Seq(Octet)
    BY SMT DEF Octet
  <2> QED
    BY <2>5, <2>6, <2>7, <2>8, Zenon
\* and of two.
<1>ShortObjectTwo.
    ASSUME NEW tag \in 1 .. 255, tag % 32 # 31, NEW x \in 0 .. 255, NEW y \in 0 .. 255
    PROVE  LET f == Object(<<tag>>, 0, <<x, y>>)
           IN IsField(f) /\ Bytes(f) = <<tag, 2, x, y>> /\ Bytes(f) \in Seq(Octet)
  <2> DEFINE T == <<tag>>
             V == <<x, y>>
             f == Object(T, 0, V)
  <2>1. T \in Seq(Octet) /\ V \in Seq(Octet) /\ Len(T) = 1 /\ T[1] = tag /\ Len(V) = 2
    BY SMT DEF Octet
  <2>2. IsTag(T)
    BY <1>ShortObjectTwo, <2>1, SMT DEF IsTag
  <2>3. Fits(0, 2) /\ LengthField(0, 2) = <<2>>
    BY SMT DEF Fits, LengthField
  <2>4. f.kind = "object" /\ f.tag = T /\ f.form = 0 /\ f.value = V
    BY Zenon DEF Object
  <2>5. IsField(f)
    <3> HIDE DEF T, V
    <3>1. f = Object(f.tag, f.form, f.value)
      BY <2>4, Zenon
    <3> HIDE DEF f
    <3>2. /\ f.tag \in Seq(Octet) /\ IsTag(f.tag)
          /\ f.value \in Seq(Octet) /\ Fits(f.form, Len(f.value))
      BY <2>1, <2>2, <2>3, <2>4, Zenon
    <3> QED
      BY <3>1, <3>2, Zenon DEF IsField
  <2>6. Bytes(f) = (T \o <<2>>) \o V
    <3> HIDE DEF T, V
    <3>1. f.kind # "padding"
      BY <2>4
    <3> HIDE DEF f
    <3> QED
      BY <2>1, <2>3, <2>4, <3>1, Zenon DEF Bytes
  <2>7. (T \o <<2>>) \o V = <<tag, 2, x, y>>
    <3> DEFINE L == <<2>>
               w == (T \o L) \o V
               c == <<tag, 2, x, y>>
    <3>1. L \in Seq(Octet) /\ Len(L) = 1 /\ L[1] = 2
      BY SMT DEF Octet
    <3>2. /\ w \in Seq(Octet) /\ Len(w) = Len(T) + Len(L) + Len(V)
          /\ \A j \in 1 .. Len(T) : w[j] = T[j]
          /\ \A j \in 1 .. Len(L) : w[Len(T) + j] = L[j]
          /\ \A j \in 1 .. Len(V) : w[Len(T) + Len(L) + j] = V[j]
      <4>1. T \in Seq(Octet) /\ L \in Seq(Octet) /\ V \in Seq(Octet)
        BY <2>1, <3>1
      <4> HIDE DEF T, V, L
      <4>2. Joins(w, T, L, V, Octet)
        BY <4>1, ThreeParts, Zenon
      <4> QED
        BY <4>2, Zenon DEF Joins
    <3>3. c \in Seq(Octet) /\ Len(c) = 4 /\ c[1] = tag /\ c[2] = 2 /\ c[3] = x /\ c[4] = y
      BY SMT DEF Octet
    <3>4. V[1] = x /\ V[2] = y
      BY SMT
    <3> HIDE DEF T, V, L, w
    <3>5. Len(w) = 4 /\ w[1] = tag /\ w[2] = 2 /\ w[3] = x /\ w[4] = y
      BY <2>1, <3>1, <3>2, <3>4, SMT
    <3> HIDE DEF c
    <3>6. \A i \in 1 .. 4 : w[i] = c[i]
      BY <3>3, <3>5, SMT
    <3>7. w = c
      BY <3>2, <3>3, <3>5, <3>6, SameElements
    <3> QED
      BY <3>7, Zenon DEF w, c, L, T, V
  <2>8. <<tag, 2, x, y>> \in Seq(Octet)
    BY SMT DEF Octet
  <2> QED
    BY <2>5, <2>6, <2>7, <2>8, Zenon
\* The name of an object with one of the known tags.
<1>KnownName.
    ASSUME NEW value
    PROVE  /\ Name(Object(<<TAG_FILE_DESC>>, 0, value)) = "type"
           /\ Name(Object(<<TAG_FILE_ID>>, 0, value)) = "fid"
           /\ Name(Object(<<TAG_DATA_BYTES>>, 0, value)) = "size"
           /\ Name(Object(<<TAG_LIFE_CYCLE>>, 0, value)) = "lifecycle"
           /\ Name(Object(<<TAG_SFI>>, 0, value)) = "sfi"
  <2> DEFINE F(n) == Object(<<n>>, 0, value)
  <2>1. \A n : F(n).kind # "padding" /\ F(n).tag = <<n>>
    BY DEF Object
  <2> HIDE DEF F
  <2>2. \A n : Name(F(n)) = CASE n = 130 -> "type" [] n = 131 -> "fid" [] n = 128 -> "size"
                              [] n = 138 -> "lifecycle" [] n = 136 -> "sfi" [] OTHER -> "other"
    <3> SUFFICES ASSUME NEW n
                 PROVE  Name(F(n)) = CASE n = 130 -> "type" [] n = 131 -> "fid" [] n = 128 -> "size"
                              [] n = 138 -> "lifecycle" [] n = 136 -> "sfi" [] OTHER -> "other"
      OBVIOUS
    <3>1. \A m : <<n>> = <<m>> <=> n = m
      BY SMT
    <3> QED
      BY <2>1, <3>1, SMT DEF Name
  <2>3. /\ Name(F(130)) = "type" /\ Name(F(131)) = "fid" /\ Name(F(128)) = "size"
        /\ Name(F(138)) = "lifecycle" /\ Name(F(136)) = "sfi"
    BY <2>2, SMT
  <2> QED
    BY <2>3, SMT DEF F, TAG_FILE_DESC, TAG_FILE_ID, TAG_DATA_BYTES, TAG_LIFE_CYCLE, TAG_SFI
\* None of the known tags is that of the template.
<1>KnownTag.
    ASSUME NEW value, NEW n \in {TAG_FILE_DESC, TAG_FILE_ID, TAG_DATA_BYTES, TAG_LIFE_CYCLE, TAG_SFI}
    PROVE  LET f == Object(<<n>>, 0, value)
           IN /\ f.kind = "object" /\ f.value = value /\ f.tag # <<TAG_FCP_TEMPLATE>>
              /\ n \in 1 .. 255 /\ n % 32 # 31
  <2>1. n \in {130, 131, 128, 138, 136}
    BY DEF TAG_FILE_DESC, TAG_FILE_ID, TAG_DATA_BYTES, TAG_LIFE_CYCLE, TAG_SFI
  <2>2. n # 98 /\ n \in 1 .. 255 /\ n % 32 # 31
    BY <2>1, SMT
  <2>3. <<n>> # <<98>>
    BY <2>2, SMT
  <2> QED
    BY <2>2, <2>3, SMT DEF Object, TAG_FCP_TEMPLATE
\* A file has a type, an identifier and a size of two bytes, and a state.
<1>FileFacts.
    ASSUME NEW d, IsFile(d)
    PROVE  /\ d.type = "DF" \/ d.type = "EF"
           /\ d.type = "DF" => d.size = 0 /\ d.sfi = FS_NO_SFI
           /\ d.type = "EF" => d.size \in 1 .. FS_MAX_EF_SIZE /\ d.sfi \in 0 .. 30
           /\ d.lifecycle \in {"CREATION", "INITIALISED", "ACTIVATED", "DEACTIVATED"}
           /\ d.file_id \in Nat /\ d.file_id < 65536 /\ d.size < 65536
  <2>1. ValidReq(d) /\ d.file_id \in Nat /\ d.file_id < 65536 /\ d.size < 65536
    BY <1>FileFacts, SMT DEF IsFile
  <2> QED
    BY <2>1, SMT DEF ValidReq, Sfi, fs_lifecycle
\* What the fields of a file say: its type,
<1>SpellsType.
    ASSUME NEW d, IsFile(d)
    PROVE  LET x == fs_iso_descriptor_byte(d)
           IN Spells(Object(<<TAG_FILE_DESC>>, 0, <<x>>), "type", d.type, <<TAG_FILE_DESC, 1, x>>)
  <2> DEFINE x == fs_iso_descriptor_byte(d)
             f == Object(<<TAG_FILE_DESC>>, 0, <<x>>)
  <2>1. d.type = "DF" \/ d.type = "EF"
    BY <1>SpellsType, <1>FileFacts, SMT
  <2>2. (d.type = "DF" => x = 56) /\ (d.type = "EF" => x = 1)
    BY SMT DEF fs_iso_descriptor_byte, fs_is_df, fs_is_ef
  <2>3. x \in 0 .. 255
    BY <2>1, <2>2, SMT
  <2> HIDE DEF x
  <2>4. f.kind = "object" /\ f.value = <<x>> /\ f.tag # <<TAG_FCP_TEMPLATE>>
    BY <1>KnownTag, Zenon
  <2>5. TAG_FILE_DESC \in 1 .. 255 /\ TAG_FILE_DESC % 32 # 31
    BY SMT DEF TAG_FILE_DESC
  <2>6. Name(f) = "type"
    BY <1>KnownName, Zenon
  <2>7. IsField(f) /\ Bytes(f) = <<TAG_FILE_DESC, 1, x>> /\ Bytes(f) \in Seq(Octet)
    BY <2>3, <2>5, <1>ShortObjectOne, Zenon
  <2>8. Says(f) = {d.type}
    <3>1. Says(f) = {y \in {"DF", "EF"} : <<x>> \in TypeValues[y]}
      <4> HIDE DEF f
      <4> QED
        BY <2>4, <2>6 DEF Says
    <3>2. /\ <<x>> \in TypeValues["DF"] <=> x = 56 \/ x = 120
          /\ <<x>> \in TypeValues["EF"] <=> x = 1 \/ x = 65
      <4>1. \A m : <<x>> = <<m>> <=> x = m
        BY SMT
      <4>2. TypeValues["DF"] = {<<56>>, <<120>>} /\ TypeValues["EF"] = {<<1>>, <<65>>}
        BY SMT DEF TypeValues
      <4> QED
        BY <4>1, <4>2, SMT
    <3>3. /\ <<x>> \in TypeValues["DF"] <=> d.type = "DF"
          /\ <<x>> \in TypeValues["EF"] <=> d.type = "EF"
      BY <2>1, <2>2, <3>2, SMT
    <3> QED
      BY <2>1, <3>1, <3>3
  <2> HIDE DEF f
  <2>9. Spells(f, "type", d.type, <<TAG_FILE_DESC, 1, x>>)
    BY <2>4, <2>6, <2>7, <2>8, Zenon DEF Spells
  <2> QED
    BY <2>9 DEF f, x
\* its identifier,
<1>SpellsFid.
    ASSUME NEW d, IsFile(d)
    PROVE  LET x == d.file_id \div 256
               y == d.file_id % 256
           IN Spells(Object(<<TAG_FILE_ID>>, 0, <<x, y>>), "fid", d.file_id, <<TAG_FILE_ID, 2, x, y>>)
  <2> DEFINE x == d.file_id \div 256
             y == d.file_id % 256
             f == Object(<<TAG_FILE_ID>>, 0, <<x, y>>)
  <2>1. x \in 0 .. 255 /\ y \in 0 .. 255 /\ d.file_id = 256 * x + y
    <3>1. d.file_id \in Nat /\ d.file_id < 65536
      BY <1>SpellsFid, <1>FileFacts, SMT
    <3> QED
      BY <3>1, TwoBytes, SMT
  <2> HIDE DEF x, y
  <2>2. f.kind = "object" /\ f.value = <<x, y>> /\ f.tag # <<TAG_FCP_TEMPLATE>>
    BY <1>KnownTag, Zenon
  <2>3. TAG_FILE_ID \in 1 .. 255 /\ TAG_FILE_ID % 32 # 31
    BY SMT DEF TAG_FILE_ID
  <2>4. Name(f) = "fid"
    BY <1>KnownName, Zenon
  <2>5. IsField(f) /\ Bytes(f) = <<TAG_FILE_ID, 2, x, y>> /\ Bytes(f) \in Seq(Octet)
    BY <2>1, <2>3, <1>ShortObjectTwo, Zenon
  <2>6. Says(f) = {d.file_id}
    <3>1. Says(f) = IF Len(<<x, y>>) = 2 THEN {Number(<<x, y>>)} ELSE {}
      <4> HIDE DEF f
      <4> QED
        BY <2>2, <2>4 DEF Says
    <3>2. Len(<<x, y>>) = 2 /\ Number(<<x, y>>) = 256 * x + y
      BY SMT DEF Number
    <3> QED
      BY <2>1, <3>1, <3>2, SMT
  <2> HIDE DEF f
  <2>7. Spells(f, "fid", d.file_id, <<TAG_FILE_ID, 2, x, y>>)
    BY <2>2, <2>4, <2>5, <2>6, Zenon DEF Spells
  <2> QED
    BY <2>7 DEF f, x, y
\* its size,
<1>SpellsSize.
    ASSUME NEW d, IsFile(d), fs_is_ef(d)
    PROVE  LET x == d.size \div 256
               y == d.size % 256
           IN Spells(Object(<<TAG_DATA_BYTES>>, 0, <<x, y>>), "size", d.size,
                     <<TAG_DATA_BYTES, 2, x, y>>)
  <2> DEFINE x == d.size \div 256
             y == d.size % 256
             f == Object(<<TAG_DATA_BYTES>>, 0, <<x, y>>)
  <2>1. d.size \in 1 .. FS_MAX_EF_SIZE /\ FS_MAX_EF_SIZE \in Nat /\ d.size < 65536
    BY <1>SpellsSize, <1>FileFacts, SizesAssumption, SMT DEF fs_is_ef
  <2>2. x \in 0 .. 255 /\ y \in 0 .. 255 /\ d.size = 256 * x + y
    <3>1. d.size \in Nat /\ d.size < 65536
      BY <2>1, SMT
    <3> QED
      BY <3>1, TwoBytes, SMT
  <2> HIDE DEF x, y
  <2>3. f.kind = "object" /\ f.value = <<x, y>> /\ f.tag # <<TAG_FCP_TEMPLATE>>
    BY <1>KnownTag, Zenon
  <2>4. TAG_DATA_BYTES \in 1 .. 255 /\ TAG_DATA_BYTES % 32 # 31
    BY SMT DEF TAG_DATA_BYTES
  <2>5. Name(f) = "size"
    BY <1>KnownName, Zenon
  <2>6. IsField(f) /\ Bytes(f) = <<TAG_DATA_BYTES, 2, x, y>> /\ Bytes(f) \in Seq(Octet)
    BY <2>2, <2>4, <1>ShortObjectTwo, Zenon
  <2>7. Says(f) = {d.size}
    <3>1. Says(f) = IF Len(<<x, y>>) \in 1 .. 4 /\ Number(<<x, y>>) \in 1 .. FS_MAX_EF_SIZE
                    THEN {Number(<<x, y>>)} ELSE {}
      <4> HIDE DEF f
      <4> QED
        BY <2>3, <2>5 DEF Says
    <3>2. Len(<<x, y>>) \in 1 .. 4 /\ Number(<<x, y>>) = 256 * x + y
      BY SMT DEF Number
    <3> QED
      BY <2>1, <2>2, <3>1, <3>2, SMT
  <2> HIDE DEF f
  <2>8. Spells(f, "size", d.size, <<TAG_DATA_BYTES, 2, x, y>>)
    BY <2>3, <2>5, <2>6, <2>7, Zenon DEF Spells
  <2> QED
    BY <2>8 DEF f, x, y
\* its life cycle,
<1>SpellsLifecycle.
    ASSUME NEW d, IsFile(d)
    PROVE  LET x == lifecycle_byte[d.lifecycle]
           IN Spells(Object(<<TAG_LIFE_CYCLE>>, 0, <<x>>), "lifecycle", d.lifecycle,
                     <<TAG_LIFE_CYCLE, 1, x>>)
  <2> DEFINE x == lifecycle_byte[d.lifecycle]
             f == Object(<<TAG_LIFE_CYCLE>>, 0, <<x>>)
  <2>1. d.lifecycle \in {"CREATION", "INITIALISED", "ACTIVATED", "DEACTIVATED"}
    BY <1>SpellsLifecycle, <1>FileFacts, SMT
  <2>2. /\ d.lifecycle = "CREATION" => x = 1
        /\ d.lifecycle = "INITIALISED" => x = 3
        /\ d.lifecycle = "ACTIVATED" => x = 5
        /\ d.lifecycle = "DEACTIVATED" => x = 4
    BY SMT DEF lifecycle_byte, fs_lifecycle
  <2>3. x \in 0 .. 255
    BY <2>1, <2>2, SMT
  <2> HIDE DEF x
  <2>4. f.kind = "object" /\ f.value = <<x>> /\ f.tag # <<TAG_FCP_TEMPLATE>>
    BY <1>KnownTag, Zenon
  <2>5. TAG_LIFE_CYCLE \in 1 .. 255 /\ TAG_LIFE_CYCLE % 32 # 31
    BY SMT DEF TAG_LIFE_CYCLE
  <2>6. Name(f) = "lifecycle"
    BY <1>KnownName, Zenon
  <2>7. IsField(f) /\ Bytes(f) = <<TAG_LIFE_CYCLE, 1, x>> /\ Bytes(f) \in Seq(Octet)
    BY <2>3, <2>5, <1>ShortObjectOne, Zenon
  <2>8. Says(f) = {d.lifecycle}
    <3>1. Says(f) = {l \in DOMAIN LifecycleValue : <<x>> = LifecycleValue[l]}
      <4> HIDE DEF f
      <4> QED
        BY <2>4, <2>6 DEF Says
    <3>2. /\ DOMAIN LifecycleValue = {"CREATION", "INITIALISED", "ACTIVATED", "DEACTIVATED"}
          /\ LifecycleValue["CREATION"] = <<1>> /\ LifecycleValue["INITIALISED"] = <<3>>
          /\ LifecycleValue["ACTIVATED"] = <<5>> /\ LifecycleValue["DEACTIVATED"] = <<4>>
      BY SMT DEF LifecycleValue
    <3>3. \A m : <<x>> = <<m>> <=> x = m
      BY SMT
    <3>4. \A l \in DOMAIN LifecycleValue : <<x>> = LifecycleValue[l] <=> l = d.lifecycle
      BY <2>1, <2>2, <3>2, <3>3, SMT
    <3> QED
      BY <2>1, <3>1, <3>2, <3>4
  <2> HIDE DEF f
  <2>9. Spells(f, "lifecycle", d.lifecycle, <<TAG_LIFE_CYCLE, 1, x>>)
    BY <2>4, <2>6, <2>7, <2>8, Zenon DEF Spells
  <2> QED
    BY <2>9 DEF f, x
\* its short identifier.
<1>SpellsSfi.
    ASSUME NEW d, IsFile(d), fs_is_ef(d)
    PROVE  LET x == 8 * d.sfi
           IN Spells(Object(<<TAG_SFI>>, 0, <<x>>), "sfi", d.sfi, <<TAG_SFI, 1, x>>)
  <2> DEFINE x == 8 * d.sfi
             f == Object(<<TAG_SFI>>, 0, <<x>>)
  <2>1. d.sfi \in 0 .. 30
    BY <1>SpellsSfi, <1>FileFacts, SMT DEF fs_is_ef
  <2>2. x \in 0 .. 255 /\ \A n \in 0 .. 30 : x = 8 * n <=> n = d.sfi
    BY <2>1, SMT
  <2> HIDE DEF x
  <2>4. f.kind = "object" /\ f.value = <<x>> /\ f.tag # <<TAG_FCP_TEMPLATE>>
    BY <1>KnownTag, Zenon
  <2>5. TAG_SFI \in 1 .. 255 /\ TAG_SFI % 32 # 31
    BY SMT DEF TAG_SFI
  <2>6. Name(f) = "sfi"
    BY <1>KnownName, Zenon
  <2>7. IsField(f) /\ Bytes(f) = <<TAG_SFI, 1, x>> /\ Bytes(f) \in Seq(Octet)
    BY <2>2, <2>5, <1>ShortObjectOne, Zenon
  <2>8. Says(f) = {d.sfi}
    <3>1. Says(f) = {n \in 0 .. 30 : <<x>> = <<8 * n>>}
      <4> HIDE DEF f
      <4> QED
        BY <2>4, <2>6 DEF Says
    <3>3. \A m : <<x>> = <<m>> <=> x = m
      BY SMT
    <3>4. \A n \in 0 .. 30 : <<x>> = <<8 * n>> <=> n = d.sfi
      BY <2>2, <3>3, SMT
    <3> QED
      BY <2>1, <3>1, <3>4, SMT
  <2> HIDE DEF f
  <2>9. Spells(f, "sfi", d.sfi, <<TAG_SFI, 1, x>>)
    BY <2>4, <2>6, <2>7, <2>8, Zenon DEF Spells
  <2> QED
    BY <2>9 DEF f, x
\* A list of good fields of which no two have the same name has no fault, and
\* asks for what its fields say.
<1>ListedText.
    ASSUME NEW t, NEW n \in Nat, NEW N, NEW V, NEW B, Listed(t, n, N, V, B)
    PROVE  ListMeans(t, n, N, V, B)
  <2>1. /\ DOMAIN t.fields = 1 .. n /\ Len(t.fields) = n
        /\ t.tail = <<>> /\ t.wrapped = FALSE /\ t.file = {}
        /\ \A i, j \in 1 .. n : N[i] = N[j] => i = j
    BY <1>ListedText DEF Listed
  <2>2. \A i \in 1 .. n : /\ IsField(t.fields[i]) /\ Name(t.fields[i]) = N[i]
                          /\ Says(t.fields[i]) = {V[i]} /\ Bytes(t.fields[i]) = B[i]
                          /\ t.fields[i].tag # <<TAG_FCP_TEMPLATE>>
                          /\ N[i] \in {"type", "fid", "size", "lifecycle", "sfi"}
    BY <1>ListedText DEF Listed, Spells
  <2>3. IsText(t)
    <3>1. BareStart(t)
      BY <2>1, <2>2, Zenon DEF BareStart
    <3>2. <<>> \in Seq(Octet)
      OBVIOUS
    <3>3. t.tail \in Seq(Octet) /\ (t.tail # <<>> => IsBroken(t.tail))
      BY <2>1, <3>2, Zenon
    <3>4. Len(t.fields) \in Nat /\ DOMAIN t.fields = 1 .. Len(t.fields)
      BY <2>1, Zenon
    <3>5. \A i \in DOMAIN t.fields : IsField(t.fields[i])
      BY <2>1, <2>2, Zenon
    <3>6. \A d, e \in t.file : IsFile(d) /\ d = e
      BY <2>1, Zenon
    <3>7. ~t.wrapped
      BY <2>1, Zenon
    <3> QED
      BY <3>1, <3>3, <3>4, <3>5, <3>6, <3>7, Zenon DEF IsText
  <2>4. Faults(t) = {}
    <3>1. ASSUME NEW i \in 1 .. n PROVE ~Repeats(t, i) /\ Fault(t.fields[i]) = "none"
      <4>1. Fault(t.fields[i]) = "none"
        <5>1. Says(t.fields[i]) # {}
          BY <2>2
        <5> QED
          BY <5>1, Zenon DEF Fault
      <4>2. Places(t, N[i], i - 1) = {}
        <5>1. \A j \in 1 .. i - 1 : j \in 1 .. n /\ j # i
          OBVIOUS
        <5>2. \A j \in 1 .. i - 1 : Name(t.fields[j]) # N[i]
          <6> SUFFICES ASSUME NEW j \in 1 .. i - 1 PROVE Name(t.fields[j]) # N[i]
            OBVIOUS
          <6>1. j \in 1 .. n /\ j # i
            BY <5>1
          <6>2. Name(t.fields[j]) = N[j] /\ N[j] # N[i]
            BY <2>1, <2>2, <6>1
          <6> QED
            BY <6>2
        <5> QED
          BY <5>2 DEF Places
      <4> QED
        BY <2>2, <4>1, <4>2, Zenon DEF Repeats
    <3> QED
      BY <2>1, <3>1 DEF Faults
  <2>5. /\ FieldBytes(t) \in Seq(Seq(Octet)) /\ Len(FieldBytes(t)) = n
        /\ \A i \in 1 .. n : FieldBytes(t)[i] = B[i]
    <3>1. Count(t) = n
      BY <2>1 DEF Count
    <3>2. /\ FieldBytes(t) \in Seq(Seq(Octet)) /\ Len(FieldBytes(t)) = Count(t)
          /\ \A i \in 1 .. Count(t) : FieldBytes(t)[i] = Bytes(t.fields[i])
      BY <2>3, FieldsAre, Zenon
    <3> QED
      BY <2>2, <3>1, <3>2, Zenon
  <2>6. Body(t) = FlattenSeq(FieldBytes(t))
    <3>1. Body(t) = Cat(FlattenSeq(FieldBytes(t)), t.tail)
      BY <2>1, Zenon DEF Body, Inner, FieldBytes, Cat
    <3>2. FlattenSeq(FieldBytes(t)) \in Seq(Octet)
      <4> DEFINE S == FieldBytes(t)
      <4>1. S \in Seq(Seq(Octet)) /\ Len(S) \in 0 .. Len(S)
        BY <2>5
      <4> HIDE DEF S
      <4>2. UpTo(S, Len(S)) \in Seq(Octet) /\ UpTo(S, Len(S)) = FlattenSeq(S)
        BY <4>1, UpToFacts, Zenon
      <4> QED
        BY <4>2, Zenon DEF S
    <3>3. \A s \in Seq(Octet) : Cat(s, <<>>) = s
      BY DEF Cat
    <3> QED
      BY <2>1, <3>1, <3>2, <3>3, Zenon
  <2>7. MeantUpTo(t, 0) = NoReq
    <3>1. \A name, d : Said(t, name, 0, d) = d
      <4> SUFFICES ASSUME NEW name, NEW d
                   PROVE  Said(t, name, 0, d) = d
        BY Zenon
      <4>1. Places(t, name, 0) = {}
        BY DEF Places
      <4> QED
        BY <4>1, Zenon DEF Said
    <3> QED
      BY <3>1 DEF MeantUpTo, NoReq
  <2>8. ASSUME NEW i \in 0 .. n - 1
        PROVE  MeantUpTo(t, i + 1) = With(MeantUpTo(t, i), N[i + 1], V[i + 1])
    <3>1. i \in Nat /\ i + 1 \in 1 .. n
      OBVIOUS
    <3>2. /\ Name(t.fields[i + 1]) = N[i + 1] /\ Says(t.fields[i + 1]) = {V[i + 1]}
          /\ N[i + 1] \in {"type", "fid", "size", "lifecycle", "sfi"}
      BY <2>2, <3>1, Zenon
    <3>3. PICK name \in {"type", "fid", "size", "lifecycle", "sfi"} : name = N[i + 1]
      BY <3>2
    <3>4. PICK w : w = V[i + 1]
      OBVIOUS
    <3>5. Name(t.fields[i + 1]) = name /\ Says(t.fields[i + 1]) = {w}
      BY <3>2, <3>3, <3>4
    <3>6. MeantUpTo(t, i + 1) = With(MeantUpTo(t, i), name, w)
      BY <3>1, <3>5, ObjectMeans
    <3> QED
      BY <3>3, <3>4, <3>6
  <2>9. \A name : Places(t, name, n) # {} <=> \E i \in 1 .. n : N[i] = name
    BY <2>2 DEF Places
  <2> QED
    BY <2>3, <2>4, <2>5, <2>6, <2>7, <2>8, <2>9, Zenon DEF ListMeans
\* A list of that many sequences flattens to that.
<1>FlatList.
    ASSUME NEW q, q[1] \in Seq(Octet)
    PROVE  FlatIs(q)
  <2> DEFINE a == q[1]
             b == q[2]
             c == q[3]
  <2> HIDE DEF a, b, c
  <2>0. q[1] = a /\ q[2] = b /\ q[3] = c
    BY DEF a, b, c
  <2> DEFINE f == [i \in 0 .. 5 |->
                     CASE i = 0 -> <<>>
                       [] i = 1 -> a
                       [] i = 2 -> Cat(a, b)
                       [] i = 3 -> Cat(Cat(a, b), c)
                       [] i = 4 -> Cat(Cat(Cat(a, b), c), q[4])
                       [] i = 5 -> Cat(Cat(Cat(Cat(a, b), c), q[4]), q[5])]
  <2>1. /\ f[0] = <<>> /\ f[1] = a /\ f[2] = Cat(a, b) /\ f[3] = Cat(Cat(a, b), c)
        /\ f[4] = Cat(Cat(Cat(a, b), c), q[4])
        /\ f[5] = Cat(Cat(Cat(Cat(a, b), c), q[4]), q[5])
    OBVIOUS
  <2> HIDE DEF f
  <2>2. /\ f[1] = Cat(f[0], q[1])
        /\ f[2] = Cat(f[1], q[2]) /\ f[3] = Cat(f[2], q[3])
        /\ f[4] = Cat(f[3], q[4]) /\ f[5] = Cat(f[4], q[5])
    <3>1. Cat(<<>>, q[1]) = q[1]
      BY <1>FlatList DEF Cat
    <3> QED
      BY <2>0, <2>1, <3>1, Zenon
  <2>3. \A i \in 1 .. 5 : f[i] = Cat(f[i - 1], q[i])
    <3> SUFFICES ASSUME NEW i \in 1 .. 5 PROVE f[i] = Cat(f[i - 1], q[i])
      OBVIOUS
    <3>1. i = 1 \/ i = 2 \/ i = 3 \/ i = 4 \/ i = 5
      OBVIOUS
    <3>2. 1 - 1 = 0 /\ 2 - 1 = 1 /\ 3 - 1 = 2 /\ 4 - 1 = 3 /\ 5 - 1 = 4
      OBVIOUS
    <3>3. CASE i = 1
      BY <2>2, <3>2, <3>3
    <3>4. CASE i = 2
      BY <2>2, <3>2, <3>4
    <3>5. CASE i = 3
      BY <2>2, <3>2, <3>5
    <3>6. CASE i = 4
      BY <2>2, <3>2, <3>6
    <3>7. CASE i = 5
      BY <2>2, <3>2, <3>7
    <3> QED
      BY <3>1, <3>3, <3>4, <3>5, <3>6, <3>7
  <2>4. ASSUME NEW n \in 3 .. 5, Len(q) = n PROVE FlattenSeq(q) = f[n]
    <3>1. \A i \in 1 .. n : i \in 1 .. 5
      OBVIOUS
    <3>2. n \in Nat
      OBVIOUS
    <3>3. f[0] = <<>>
      BY <2>1
    <3>4. \A i \in 1 .. n : f[i] = Cat(f[i - 1], q[i])
      BY <2>3, <3>1
    <3> QED
      BY <2>4, <3>2, <3>3, <3>4, FlattenIs, Zenon
  <2>5. 3 \in 3 .. 5 /\ 4 \in 3 .. 5 /\ 5 \in 3 .. 5
    OBVIOUS
  <2> QED
    BY <2>0, <2>1, <2>4, <2>5, Zenon DEF FlatIs
\* The length of a concatenation, and the empty sequence in one.
<1>CatFacts.
    ASSUME NEW O, NEW x \in Seq(O), NEW y \in Seq(O)
    PROVE  Cat(x, y) \in Seq(O) /\ Len(Cat(x, y)) = Len(x) + Len(y) /\ Cat(x, <<>>) = x
  BY <1>CatFacts DEF Cat
\* Appending one element.
<1>OneMore.
    ASSUME NEW O, NEW s \in Seq(O), NEW x \in O
    PROVE  Cat(s, <<x>>) \in Seq(O) /\ Extends(Cat(s, <<x>>), s, Len(s), x)
  BY <1>OneMore DEF Cat, Extends
\* fs_build_fcp appends the size for an EF, and the short identifier where there is one.
<1>FieldList.
    ASSUME NEW a, NEW b, NEW c, NEW e, NEW g
    PROVE  /\ FieldsEnum(Cat(Cat(Cat(<<a, b>>, <<>>), <<e>>), <<>>), 3, a, b, e, e, e)
           /\ FieldsEnum(Cat(Cat(Cat(<<a, b>>, <<c>>), <<e>>), <<>>), 4, a, b, c, e, e)
           /\ FieldsEnum(Cat(Cat(Cat(<<a, b>>, <<c>>), <<e>>), <<g>>), 5, a, b, c, e, g)
  <2> DEFINE O == {a, b, c, e, g}
             ab == <<a, b>>
             abe == Cat(ab, <<e>>)
             abc == Cat(ab, <<c>>)
             abce == Cat(abc, <<e>>)
             abceg == Cat(abce, <<g>>)
  <2>1. ab \in Seq(O) /\ Len(ab) = 2 /\ ab[1] = a /\ ab[2] = b
    OBVIOUS
  <2>2. c \in O /\ e \in O /\ g \in O
    OBVIOUS
  <2> HIDE DEF O, ab
  <2>3. abe \in Seq(O) /\ Extends(abe, ab, Len(ab), e)
    BY <2>1, <2>2, <1>OneMore
  <2>4. abc \in Seq(O) /\ Extends(abc, ab, Len(ab), c)
    BY <2>1, <2>2, <1>OneMore
  <2> HIDE DEF abe, abc
  <2>5. abce \in Seq(O) /\ Extends(abce, abc, Len(abc), e)
    BY <2>2, <2>4, <1>OneMore
  <2> HIDE DEF abce
  <2>6. abceg \in Seq(O) /\ Extends(abceg, abce, Len(abce), g)
    BY <2>2, <2>5, <1>OneMore
  <2> HIDE DEF abceg
  <2>7. Len(abe) = 3 /\ abe[1] = a /\ abe[2] = b /\ abe[3] = e
    BY <2>1, <2>3 DEF Extends
  <2>8. Len(abc) = 3 /\ abc[1] = a /\ abc[2] = b /\ abc[3] = c
    BY <2>1, <2>4 DEF Extends
  <2>9. Len(abce) = 4 /\ abce[1] = a /\ abce[2] = b /\ abce[3] = c /\ abce[4] = e
    BY <2>5, <2>8 DEF Extends
  <2>10. /\ Len(abceg) = 5
         /\ abceg[1] = a /\ abceg[2] = b /\ abceg[3] = c /\ abceg[4] = e /\ abceg[5] = g
    BY <2>6, <2>9 DEF Extends
  <2>11. Cat(ab, <<>>) = ab /\ Cat(abe, <<>>) = abe /\ Cat(abce, <<>>) = abce
    BY <2>1, <2>3, <2>5, <1>CatFacts
  <2>12. /\ DOMAIN abe = 1 .. 3 /\ DOMAIN abce = 1 .. 4 /\ DOMAIN abceg = 1 .. 5
    BY <2>3, <2>5, <2>6, <2>7, <2>9, <2>10
  <2>13. /\ Cat(Cat(Cat(<<a, b>>, <<>>), <<e>>), <<>>) = abe
         /\ Cat(Cat(Cat(<<a, b>>, <<c>>), <<e>>), <<>>) = abce
         /\ Cat(Cat(Cat(<<a, b>>, <<c>>), <<e>>), <<g>>) = abceg
    BY <2>11, Zenon DEF ab, abe, abc, abce, abceg
  <2>14. FieldsEnum(abe, 3, a, b, e, e, e)
    BY <2>7, <2>12 DEF FieldsEnum
  <2>15. FieldsEnum(abce, 4, a, b, c, e, e)
    BY <2>9, <2>12 DEF FieldsEnum
  <2>16. FieldsEnum(abceg, 5, a, b, c, e, g)
    BY <2>10, <2>12 DEF FieldsEnum
  <2> QED
    BY <2>13, <2>14, <2>15, <2>16, Zenon
\* Assigning one field of a request leaves the others.
<1>WithOne.
    ASSUME NEW a, NEW b, NEW c, NEW e, NEW g, NEW w
    PROVE  /\ With(Request(b, a, e, c, g), "type", w) = Request(b, w, e, c, g)
           /\ With(Request(b, a, e, c, g), "fid", w) = Request(w, a, e, c, g)
           /\ With(Request(b, a, e, c, g), "size", w) = Request(b, a, e, w, g)
           /\ With(Request(b, a, e, c, g), "lifecycle", w) = Request(b, a, w, c, g)
           /\ With(Request(b, a, e, c, g), "sfi", w) = Request(b, a, e, c, w)
  <2> DEFINE r == Request(b, a, e, c, g)
  <2>1. /\ With(r, "type", w) = [r EXCEPT !.type = w]
        /\ With(r, "fid", w) = [r EXCEPT !.file_id = w]
        /\ With(r, "size", w) = [r EXCEPT !.size = w]
        /\ With(r, "lifecycle", w) = [r EXCEPT !.lifecycle = w]
        /\ With(r, "sfi", w) = [r EXCEPT !.sfi = w]
    BY DEF With
  <2>2. [r EXCEPT !.type = w] = Request(b, w, e, c, g)
    BY DEF Request
  <2>3. [r EXCEPT !.file_id = w] = Request(w, a, e, c, g)
    BY DEF Request
  <2>4. [r EXCEPT !.size = w] = Request(b, a, e, w, g)
    BY DEF Request
  <2>5. [r EXCEPT !.lifecycle = w] = Request(b, a, w, c, g)
    BY DEF Request
  <2>6. [r EXCEPT !.sfi = w] = Request(b, a, e, c, w)
    BY DEF Request
  <2> QED
    BY <2>1, <2>2, <2>3, <2>4, <2>5, <2>6, Zenon
\* The fields of a request, assigned one after the other.
<1>WithAll.
    ASSUME NEW a, NEW b, NEW c, NEW e, NEW g
    PROVE  LET r2 == With(With(NoReq, "type", a), "fid", b)
           IN /\ With(r2, "lifecycle", e) = Request(b, a, e, 0, FS_NO_SFI)
              /\ With(With(r2, "size", c), "lifecycle", e) = Request(b, a, e, c, FS_NO_SFI)
              /\ With(With(With(r2, "size", c), "lifecycle", e), "sfi", g)
                   = Request(b, a, e, c, g)
  <2> DEFINE r1 == With(NoReq, "type", a)
             r2 == With(r1, "fid", b)
  <2>1. NoReq = Request(0, "FREE", "ACTIVATED", 0, FS_NO_SFI)
    BY DEF NoReq, Request
  <2>2. r1 = Request(0, a, "ACTIVATED", 0, FS_NO_SFI)
    BY <2>1, <1>WithOne
  <2>3. r2 = Request(b, a, "ACTIVATED", 0, FS_NO_SFI)
    BY <2>2, <1>WithOne
  <2>4. With(r2, "lifecycle", e) = Request(b, a, e, 0, FS_NO_SFI)
    BY <2>3, <1>WithOne
  <2>5. With(r2, "size", c) = Request(b, a, "ACTIVATED", c, FS_NO_SFI)
    BY <1>WithAll, <2>3, <1>WithOne
  <2>6. With(With(r2, "size", c), "lifecycle", e) = Request(b, a, e, c, FS_NO_SFI)
    BY <2>5, <1>WithOne
  <2>7. With(With(With(r2, "size", c), "lifecycle", e), "sfi", g) = Request(b, a, e, c, g)
    BY <2>6, <1>WithOne
  <2> QED
    BY <2>4, <2>6, <2>7
\* The switch and the checks after it accept such a text.
<1>ListedAccepted.
    ASSUME NEW t, NEW n \in 3 .. 5, NEW N, NEW V, NEW B, Listed(t, n, N, V, B),
           NEW d, IsFile(d), MeantUpTo(t, n) = Request(d.file_id, d.type, d.lifecycle, d.size, d.sfi),
           N[1] = "type", N[2] = "fid", (\E i \in 1 .. n : N[i] = "size") <=> d.type = "EF"
    PROVE  Agrees(t, d)
  <2>1. /\ d.type = "DF" \/ d.type = "EF"
        /\ d.type = "DF" => d.sfi = FS_NO_SFI
    BY <1>ListedAccepted, <1>FileFacts, SMT
  <2>2. n \in Nat
    OBVIOUS
  <2>3. /\ Faults(t) = {}
        /\ \A name : Places(t, name, n) # {} <=> \E i \in 1 .. n : N[i] = name
    <3>1. ListMeans(t, n, N, V, B)
      BY <1>ListedAccepted, <2>2, <1>ListedText
    <3> QED
      BY <3>1, Zenon DEF ListMeans
  <2>4. Len(t.fields) = n /\ t.wrapped = FALSE /\ t.tail = <<>>
    BY <1>ListedAccepted DEF Listed
  <2> DEFINE m == Meant(t)
  <2>5. m = Request(d.file_id, d.type, d.lifecycle, d.size, d.sfi)
    BY <1>ListedAccepted, <2>4, Zenon DEF Meant
  <2> HIDE DEF m
  <2>6. 1 \in 1 .. n /\ 2 \in 1 .. n
    OBVIOUS
  <2>7. /\ Places(t, "type", n) # {} /\ Places(t, "fid", n) # {}
        /\ Places(t, "size", n) # {} <=> d.type = "EF"
    BY <1>ListedAccepted, <2>3, <2>6, Zenon
  <2>8. /\ m.file_id = d.file_id /\ m.type = d.type
        /\ m.lifecycle = d.lifecycle /\ m.size = d.size /\ m.sfi = d.sfi
    BY <2>5 DEF Request
  <2>9. Complete(t)
    BY <2>1, <2>4, <2>7, <2>8 DEF Complete, m
  <2>10. MeantSw(t) = "9000"
    BY <2>3, <2>4, <2>9, Zenon DEF MeantSw
  <2>11. /\ DOMAIN NoReq = {"file_id", "type", "lifecycle", "size", "sfi"}
         /\ DOMAIN m = {"file_id", "type", "lifecycle", "size", "sfi"}
    BY <2>5 DEF NoReq, Request
  <2>12. DOMAIN m = DOMAIN NoReq /\ \A f \in DOMAIN NoReq : m[f] = d[f]
    BY <2>8, <2>11
  <2> QED
    BY <2>10, <2>12, Zenon DEF Agrees, m
<1> SUFFICES ASSUME NEW d, IsFile(d) PROVE Describes(Described(d), d)
  OBVIOUS
<1> DEFINE t == Described(d)
           x1 == <<TAG_FILE_DESC, 1, fs_iso_descriptor_byte(d)>>
           x2 == <<TAG_FILE_ID, 2, d.file_id \div 256, d.file_id % 256>>
           x3 == <<TAG_DATA_BYTES, 2, d.size \div 256, d.size % 256>>
           x4 == <<TAG_LIFE_CYCLE, 1, lifecycle_byte[d.lifecycle]>>
           x5 == <<TAG_SFI, 1, 8 * d.sfi>>
           f1 == Object(<<TAG_FILE_DESC>>, 0, <<fs_iso_descriptor_byte(d)>>)
           f2 == Object(<<TAG_FILE_ID>>, 0, <<d.file_id \div 256, d.file_id % 256>>)
           f3 == Object(<<TAG_DATA_BYTES>>, 0, <<d.size \div 256, d.size % 256>>)
           f4 == Object(<<TAG_LIFE_CYCLE>>, 0, <<lifecycle_byte[d.lifecycle]>>)
           f5 == Object(<<TAG_SFI>>, 0, <<8 * d.sfi>>)
           ef == fs_is_ef(d)
           named == ef /\ d.sfi # FS_NO_SFI
           y3 == IF ef THEN x3 ELSE <<>>
           y5 == IF named THEN x5 ELSE <<>>
<1>1. /\ t.fields = Cat(Cat(Cat(<<f1, f2>>, IF ef THEN <<f3>> ELSE <<>>), <<f4>>),
                        IF named THEN <<f5>> ELSE <<>>)
      /\ t.tail = <<>> /\ t.wrapped = FALSE /\ t.file = {}
  BY Zenon DEF Described, FileFields, Cat
<1>2. fcp_bytes(d) = Cat(Cat(Cat(Cat(x1, x2), y3), x4), y5)
  BY Zenon DEF fcp_bytes, Cat
<1>3. /\ Spells(f1, "type", d.type, x1) /\ Spells(f2, "fid", d.file_id, x2)
      /\ Spells(f4, "lifecycle", d.lifecycle, x4)
      /\ ef => Spells(f3, "size", d.size, x3) /\ Spells(f5, "sfi", d.sfi, x5)
  <2>1. Spells(f1, "type", d.type, x1)
    BY <1>SpellsType, Zenon
  <2>2. Spells(f2, "fid", d.file_id, x2)
    BY <1>SpellsFid, Zenon
  <2>3. Spells(f4, "lifecycle", d.lifecycle, x4)
    BY <1>SpellsLifecycle, Zenon
  <2>4. ef => Spells(f3, "size", d.size, x3)
    BY <1>SpellsSize, Zenon
  <2>5. ef => Spells(f5, "sfi", d.sfi, x5)
    BY <1>SpellsSfi, Zenon
  <2> HIDE DEF t, x1, x2, x3, x4, x5, f1, f2, f3, f4, f5, ef, named
  <2> QED
    BY <2>1, <2>2, <2>3, <2>4, <2>5, Zenon
<1>4. Len(x1) = 3 /\ Len(x2) = 4 /\ Len(x3) = 4 /\ Len(x4) = 3 /\ Len(x5) = 3
  BY SMT
<1>5. /\ d.type = "DF" \/ d.type = "EF"
      /\ d.type = "DF" => d.size = 0 /\ d.sfi = FS_NO_SFI
      /\ ef <=> d.type = "EF"
  BY <1>FileFacts, SMT DEF fs_is_ef
<1>6. fcp_len(d) = 10 + (IF ef THEN 4 ELSE 0) + (IF named THEN 3 ELSE 0)
  BY Zenon DEF fcp_len
<1> HIDE DEF t, x1, x2, x3, x4, x5, f1, f2, f3, f4, f5, ef, named
<1>7. x1 \in Seq(Octet) /\ x2 \in Seq(Octet) /\ x4 \in Seq(Octet)
      /\ (ef => x3 \in Seq(Octet) /\ x5 \in Seq(Octet))
  BY <1>3, Zenon DEF Spells
<1>8. CASE ~ef
  <2> DEFINE N == <<"type", "fid", "lifecycle">>
             V == <<d.type, d.file_id, d.lifecycle>>
             B == <<x1, x2, x4>>
  <2>1. ~named /\ d.type = "DF" /\ d.size = 0 /\ d.sfi = FS_NO_SFI
    BY <1>5, <1>8 DEF named
  <2>2. /\ DOMAIN t.fields = 1 .. 3 /\ Len(t.fields) = 3
        /\ t.fields[1] = f1 /\ t.fields[2] = f2 /\ t.fields[3] = f4
    <3>1. t.fields = Cat(Cat(Cat(<<f1, f2>>, <<>>), <<f4>>), <<>>)
      BY <1>1, <1>8, <2>1, Zenon
    <3>2. FieldsEnum(t.fields, 3, f1, f2, f4, f4, f4)
      BY <3>1, <1>FieldList
    <3> QED
      BY <3>2 DEF FieldsEnum
  <2>3. /\ N[1] = "type" /\ N[2] = "fid" /\ N[3] = "lifecycle"
        /\ V[1] = d.type /\ V[2] = d.file_id /\ V[3] = d.lifecycle
        /\ B[1] = x1 /\ B[2] = x2 /\ B[3] = x4
    BY SMT
  <2> HIDE DEF N, V, B
  <2>4. \A i \in 1 .. 3 : i = 1 \/ i = 2 \/ i = 3
    BY SMT
  <2>5. Listed(t, 3, N, V, B)
    <3>1. \A i \in 1 .. 3 : /\ Spells(t.fields[i], N[i], V[i], B[i])
                            /\ N[i] \in {"type", "fid", "size", "lifecycle", "sfi"}
      BY <1>3, <1>8, <2>1, <2>2, <2>3, <2>4
    <3>2. \A i, j \in 1 .. 3 : N[i] = N[j] => i = j
      BY <2>3, <2>4
    <3> QED
      BY <1>1, <2>2, <3>1, <3>2, Zenon DEF Listed
  <2>6. ListMeans(t, 3, N, V, B)
    <3>1. 3 \in Nat
      OBVIOUS
    <3> QED
      BY <2>5, <3>1, <1>ListedText
  <2>7. Body(t) = Cat(Cat(x1, x2), x4)
    <3> DEFINE q == FieldBytes(t)
    <3>1. Body(t) = FlattenSeq(q) /\ Len(q) = 3 /\ \A i \in 1 .. 3 : q[i] = B[i]
      BY <2>6, Zenon DEF ListMeans
    <3> HIDE DEF q
    <3>2. q[1] = x1 /\ q[2] = x2 /\ q[3] = x4
      BY <2>3, <3>1
    <3>3. FlatIs(q)
      BY <1>7, <3>2, <1>FlatList
    <3> QED
      BY <3>1, <3>2, <3>3 DEF FlatIs
  <2>8. Body(t) = fcp_bytes(d) /\ Body(t) \in Seq(Octet) /\ Len(Body(t)) = fcp_len(d)
    <3> DEFINE a == Cat(x1, x2)
             b == Cat(a, x4)
    <3>1. fcp_bytes(d) = Cat(Cat(Cat(Cat(x1, x2), <<>>), x4), <<>>)
      BY <1>2, <1>8, <2>1, Zenon
    <3>2. a \in Seq(Octet) /\ Len(a) = Len(x1) + Len(x2)
      BY <1>7, <1>CatFacts
    <3>3. Cat(a, <<>>) = a
      BY <3>2, <1>CatFacts
    <3> HIDE DEF a
    <3>4. b \in Seq(Octet) /\ Len(b) = Len(a) + Len(x4)
      BY <1>7, <1>8, <2>1, <3>2, <1>CatFacts
    <3>5. Cat(b, <<>>) = b
      BY <3>4, <1>CatFacts
    <3> HIDE DEF b
    <3>6. Body(t) = b /\ fcp_bytes(d) = b
      BY <2>7, <3>1, <3>3, <3>5, Zenon DEF a, b
    <3>7. Len(b) = fcp_len(d)
      BY <1>4, <1>6, <1>8, <2>1, <3>2, <3>4
    <3> QED
      BY <3>4, <3>6, <3>7
  <2>9. MeantUpTo(t, 3) = Request(d.file_id, d.type, d.lifecycle, d.size, d.sfi)
    <3>1. /\ MeantUpTo(t, 0) = NoReq
          /\ \A i \in 0 .. 3 - 1 : MeantUpTo(t, i + 1) = With(MeantUpTo(t, i), N[i + 1], V[i + 1])
      BY <2>6, Zenon DEF ListMeans
    <3>2. /\ MeantUpTo(t, 1) = With(NoReq, "type", d.type)
          /\ MeantUpTo(t, 2) = With(MeantUpTo(t, 1), "fid", d.file_id)
          /\ MeantUpTo(t, 3) = With(MeantUpTo(t, 2), "lifecycle", d.lifecycle)
      <4>1. /\ 0 \in 0 .. 3 - 1 /\ 1 \in 0 .. 3 - 1 /\ 2 \in 0 .. 3 - 1
            /\ 0 + 1 = 1 /\ 1 + 1 = 2 /\ 2 + 1 = 3
        OBVIOUS
      <4> QED
        BY <2>3, <3>1, <4>1
    <3>3. MeantUpTo(t, 3)
            = With(With(With(NoReq, "type", d.type), "fid", d.file_id), "lifecycle", d.lifecycle)
      BY <3>2, Zenon
    <3>4. MeantUpTo(t, 3) = Request(d.file_id, d.type, d.lifecycle, 0, FS_NO_SFI)
      BY <3>3, <1>WithAll
    <3> QED
      BY <2>1, <3>4, Zenon
  <2>10. (\E i \in 1 .. 3 : N[i] = "size") <=> d.type = "EF"
    BY <2>1, <2>3, <2>4
  <2>11. Agrees(t, d)
    <3>1. 3 \in 3 .. 5 /\ N[1] = "type" /\ N[2] = "fid"
      BY <2>3
    <3> QED
      BY <2>5, <2>9, <2>10, <3>1, <1>ListedAccepted
  <2>12. IsText(t)
    BY <2>6, Zenon DEF ListMeans
  <2> QED
    BY <1>1, <2>8, <2>11, <2>12, Zenon DEF Describes, Agrees, t
<1>9. CASE ef /\ ~named
  <2> DEFINE N == <<"type", "fid", "size", "lifecycle">>
             V == <<d.type, d.file_id, d.size, d.lifecycle>>
             B == <<x1, x2, x3, x4>>
  <2>1. d.type = "EF" /\ d.sfi = FS_NO_SFI
    BY <1>5, <1>9 DEF named
  <2>2. /\ DOMAIN t.fields = 1 .. 4 /\ Len(t.fields) = 4
        /\ t.fields[1] = f1 /\ t.fields[2] = f2 /\ t.fields[3] = f3 /\ t.fields[4] = f4
    <3>1. t.fields = Cat(Cat(Cat(<<f1, f2>>, <<f3>>), <<f4>>), <<>>)
      BY <1>1, <1>9, <2>1, Zenon
    <3>2. FieldsEnum(t.fields, 4, f1, f2, f3, f4, f4)
      BY <3>1, <1>FieldList
    <3> QED
      BY <3>2 DEF FieldsEnum
  <2>3. /\ N[1] = "type" /\ N[2] = "fid" /\ N[3] = "size" /\ N[4] = "lifecycle"
        /\ V[1] = d.type /\ V[2] = d.file_id /\ V[3] = d.size /\ V[4] = d.lifecycle
        /\ B[1] = x1 /\ B[2] = x2 /\ B[3] = x3 /\ B[4] = x4
    BY SMT
  <2> HIDE DEF N, V, B
  <2>4. \A i \in 1 .. 4 : i = 1 \/ i = 2 \/ i = 3 \/ i = 4
    BY SMT
  <2>5. Listed(t, 4, N, V, B)
    <3>1. \A i \in 1 .. 4 : /\ Spells(t.fields[i], N[i], V[i], B[i])
                            /\ N[i] \in {"type", "fid", "size", "lifecycle", "sfi"}
      BY <1>3, <1>9, <2>1, <2>2, <2>3, <2>4
    <3>2. \A i, j \in 1 .. 4 : N[i] = N[j] => i = j
      BY <2>3, <2>4
    <3> QED
      BY <1>1, <2>2, <3>1, <3>2, Zenon DEF Listed
  <2>6. ListMeans(t, 4, N, V, B)
    <3>1. 4 \in Nat
      OBVIOUS
    <3> QED
      BY <2>5, <3>1, <1>ListedText
  <2>7. Body(t) = Cat(Cat(Cat(x1, x2), x3), x4)
    <3> DEFINE q == FieldBytes(t)
    <3>1. Body(t) = FlattenSeq(q) /\ Len(q) = 4 /\ \A i \in 1 .. 4 : q[i] = B[i]
      BY <2>6, Zenon DEF ListMeans
    <3> HIDE DEF q
    <3>2. q[1] = x1 /\ q[2] = x2 /\ q[3] = x3 /\ q[4] = x4
      BY <2>3, <3>1
    <3>3. FlatIs(q)
      BY <1>7, <3>2, <1>FlatList
    <3> QED
      BY <3>1, <3>2, <3>3 DEF FlatIs
  <2>8. Body(t) = fcp_bytes(d) /\ Body(t) \in Seq(Octet) /\ Len(Body(t)) = fcp_len(d)
    <3> DEFINE a == Cat(x1, x2)
             b == Cat(a, x3)
             c == Cat(b, x4)
    <3>1. fcp_bytes(d) = Cat(Cat(Cat(Cat(x1, x2), x3), x4), <<>>)
      BY <1>2, <1>9, <2>1, Zenon
    <3>2. a \in Seq(Octet) /\ Len(a) = Len(x1) + Len(x2)
      BY <1>7, <1>CatFacts
    <3> HIDE DEF a
    <3>3. b \in Seq(Octet) /\ Len(b) = Len(a) + Len(x3)
      BY <1>7, <1>9, <2>1, <3>2, <1>CatFacts
    <3> HIDE DEF b
    <3>4. c \in Seq(Octet) /\ Len(c) = Len(b) + Len(x4)
      BY <1>7, <1>9, <2>1, <3>3, <1>CatFacts
    <3>5. Cat(c, <<>>) = c
      BY <3>4, <1>CatFacts
    <3> HIDE DEF c
    <3>6. Body(t) = c /\ fcp_bytes(d) = c
      BY <2>7, <3>1, <3>5, Zenon DEF a, b, c
    <3>7. Len(c) = fcp_len(d)
      BY <1>4, <1>6, <1>9, <2>1, <3>2, <3>3, <3>4
    <3> QED
      BY <3>4, <3>6, <3>7
  <2>9. MeantUpTo(t, 4) = Request(d.file_id, d.type, d.lifecycle, d.size, d.sfi)
    <3>1. /\ MeantUpTo(t, 0) = NoReq
          /\ \A i \in 0 .. 4 - 1 : MeantUpTo(t, i + 1) = With(MeantUpTo(t, i), N[i + 1], V[i + 1])
      BY <2>6, Zenon DEF ListMeans
    <3>2. /\ MeantUpTo(t, 1) = With(NoReq, "type", d.type)
          /\ MeantUpTo(t, 2) = With(MeantUpTo(t, 1), "fid", d.file_id)
          /\ MeantUpTo(t, 3) = With(MeantUpTo(t, 2), "size", d.size)
          /\ MeantUpTo(t, 4) = With(MeantUpTo(t, 3), "lifecycle", d.lifecycle)
      <4>1. /\ 0 \in 0 .. 4 - 1 /\ 1 \in 0 .. 4 - 1 /\ 2 \in 0 .. 4 - 1 /\ 3 \in 0 .. 4 - 1
            /\ 0 + 1 = 1 /\ 1 + 1 = 2 /\ 2 + 1 = 3 /\ 3 + 1 = 4
        OBVIOUS
      <4> QED
        BY <2>3, <3>1, <4>1
    <3>3. MeantUpTo(t, 4)
            = With(With(With(With(NoReq, "type", d.type), "fid", d.file_id), "size", d.size), "lifecycle", d.lifecycle)
      BY <3>2, Zenon
    <3>4. MeantUpTo(t, 4) = Request(d.file_id, d.type, d.lifecycle, d.size, FS_NO_SFI)
      BY <3>3, <1>WithAll
    <3> QED
      BY <2>1, <3>4, Zenon
  <2>10. (\E i \in 1 .. 4 : N[i] = "size") <=> d.type = "EF"
    BY <2>1, <2>3, <2>4
  <2>11. Agrees(t, d)
    <3>1. 4 \in 3 .. 5 /\ N[1] = "type" /\ N[2] = "fid"
      BY <2>3
    <3> QED
      BY <2>5, <2>9, <2>10, <3>1, <1>ListedAccepted
  <2>12. IsText(t)
    BY <2>6, Zenon DEF ListMeans
  <2> QED
    BY <1>1, <2>8, <2>11, <2>12, Zenon DEF Describes, Agrees, t
<1>10. CASE ef /\ named
  <2> DEFINE N == <<"type", "fid", "size", "lifecycle", "sfi">>
             V == <<d.type, d.file_id, d.size, d.lifecycle, d.sfi>>
             B == <<x1, x2, x3, x4, x5>>
  <2>1. d.type = "EF"
    BY <1>5, <1>10 DEF named
  <2>2. /\ DOMAIN t.fields = 1 .. 5 /\ Len(t.fields) = 5
        /\ t.fields[1] = f1 /\ t.fields[2] = f2 /\ t.fields[3] = f3 /\ t.fields[4] = f4 /\ t.fields[5] = f5
    <3>1. t.fields = Cat(Cat(Cat(<<f1, f2>>, <<f3>>), <<f4>>), <<f5>>)
      BY <1>1, <1>10, <2>1, Zenon
    <3>2. FieldsEnum(t.fields, 5, f1, f2, f3, f4, f5)
      BY <3>1, <1>FieldList
    <3> QED
      BY <3>2 DEF FieldsEnum
  <2>3. /\ N[1] = "type" /\ N[2] = "fid" /\ N[3] = "size" /\ N[4] = "lifecycle" /\ N[5] = "sfi"
        /\ V[1] = d.type /\ V[2] = d.file_id /\ V[3] = d.size /\ V[4] = d.lifecycle /\ V[5] = d.sfi
        /\ B[1] = x1 /\ B[2] = x2 /\ B[3] = x3 /\ B[4] = x4 /\ B[5] = x5
    BY SMT
  <2> HIDE DEF N, V, B
  <2>4. \A i \in 1 .. 5 : i = 1 \/ i = 2 \/ i = 3 \/ i = 4 \/ i = 5
    BY SMT
  <2>5. Listed(t, 5, N, V, B)
    <3>1. \A i \in 1 .. 5 : /\ Spells(t.fields[i], N[i], V[i], B[i])
                            /\ N[i] \in {"type", "fid", "size", "lifecycle", "sfi"}
      BY <1>3, <1>10, <2>1, <2>2, <2>3, <2>4
    <3>2. \A i, j \in 1 .. 5 : N[i] = N[j] => i = j
      BY <2>3, <2>4
    <3> QED
      BY <1>1, <2>2, <3>1, <3>2, Zenon DEF Listed
  <2>6. ListMeans(t, 5, N, V, B)
    <3>1. 5 \in Nat
      OBVIOUS
    <3> QED
      BY <2>5, <3>1, <1>ListedText
  <2>7. Body(t) = Cat(Cat(Cat(Cat(x1, x2), x3), x4), x5)
    <3> DEFINE q == FieldBytes(t)
    <3>1. Body(t) = FlattenSeq(q) /\ Len(q) = 5 /\ \A i \in 1 .. 5 : q[i] = B[i]
      BY <2>6, Zenon DEF ListMeans
    <3> HIDE DEF q
    <3>2. q[1] = x1 /\ q[2] = x2 /\ q[3] = x3 /\ q[4] = x4 /\ q[5] = x5
      BY <2>3, <3>1
    <3>3. FlatIs(q)
      BY <1>7, <3>2, <1>FlatList
    <3> QED
      BY <3>1, <3>2, <3>3 DEF FlatIs
  <2>8. Body(t) = fcp_bytes(d) /\ Body(t) \in Seq(Octet) /\ Len(Body(t)) = fcp_len(d)
    <3> DEFINE a == Cat(x1, x2)
             b == Cat(a, x3)
             c == Cat(b, x4)
             e == Cat(c, x5)
    <3>1. fcp_bytes(d) = Cat(Cat(Cat(Cat(x1, x2), x3), x4), x5)
      BY <1>2, <1>10, <2>1, Zenon
    <3>2. a \in Seq(Octet) /\ Len(a) = Len(x1) + Len(x2)
      BY <1>7, <1>CatFacts
    <3> HIDE DEF a
    <3>3. b \in Seq(Octet) /\ Len(b) = Len(a) + Len(x3)
      BY <1>7, <1>10, <2>1, <3>2, <1>CatFacts
    <3> HIDE DEF b
    <3>4. c \in Seq(Octet) /\ Len(c) = Len(b) + Len(x4)
      BY <1>7, <1>10, <2>1, <3>3, <1>CatFacts
    <3> HIDE DEF c
    <3>5. e \in Seq(Octet) /\ Len(e) = Len(c) + Len(x5)
      BY <1>7, <1>10, <2>1, <3>4, <1>CatFacts
    <3> HIDE DEF e
    <3>6. Body(t) = e /\ fcp_bytes(d) = e
      BY <2>7, <3>1, Zenon DEF a, b, c, e
    <3>7. Len(e) = fcp_len(d)
      BY <1>4, <1>6, <1>10, <2>1, <3>2, <3>3, <3>4, <3>5
    <3> QED
      BY <3>5, <3>6, <3>7
  <2>9. MeantUpTo(t, 5) = Request(d.file_id, d.type, d.lifecycle, d.size, d.sfi)
    <3>1. /\ MeantUpTo(t, 0) = NoReq
          /\ \A i \in 0 .. 5 - 1 : MeantUpTo(t, i + 1) = With(MeantUpTo(t, i), N[i + 1], V[i + 1])
      BY <2>6, Zenon DEF ListMeans
    <3>2. /\ MeantUpTo(t, 1) = With(NoReq, "type", d.type)
          /\ MeantUpTo(t, 2) = With(MeantUpTo(t, 1), "fid", d.file_id)
          /\ MeantUpTo(t, 3) = With(MeantUpTo(t, 2), "size", d.size)
          /\ MeantUpTo(t, 4) = With(MeantUpTo(t, 3), "lifecycle", d.lifecycle)
          /\ MeantUpTo(t, 5) = With(MeantUpTo(t, 4), "sfi", d.sfi)
      <4>1. /\ 0 \in 0 .. 5 - 1 /\ 1 \in 0 .. 5 - 1 /\ 2 \in 0 .. 5 - 1 /\ 3 \in 0 .. 5 - 1 /\ 4 \in 0 .. 5 - 1
            /\ 0 + 1 = 1 /\ 1 + 1 = 2 /\ 2 + 1 = 3 /\ 3 + 1 = 4 /\ 4 + 1 = 5
        OBVIOUS
      <4> QED
        BY <2>3, <3>1, <4>1
    <3>3. MeantUpTo(t, 5)
            = With(With(With(With(With(NoReq, "type", d.type), "fid", d.file_id), "size", d.size), "lifecycle", d.lifecycle), "sfi", d.sfi)
      BY <3>2, Zenon
    <3>4. MeantUpTo(t, 5) = Request(d.file_id, d.type, d.lifecycle, d.size, d.sfi)
      BY <3>3, <1>WithAll
    <3> QED
      BY <2>1, <3>4, Zenon
  <2>10. (\E i \in 1 .. 5 : N[i] = "size") <=> d.type = "EF"
    BY <2>1, <2>3, <2>4
  <2>11. Agrees(t, d)
    <3>1. 5 \in 3 .. 5 /\ N[1] = "type" /\ N[2] = "fid"
      BY <2>3
    <3> QED
      BY <2>5, <2>9, <2>10, <3>1, <1>ListedAccepted
  <2>12. IsText(t)
    BY <2>6, Zenon DEF ListMeans
  <2> QED
    BY <1>1, <2>8, <2>11, <2>12, Zenon DEF Describes, Agrees, t
<1> QED
  BY <1>8, <1>9, <1>10 DEF t

-----------------------------------------------------------------------------
(***************************************************************************)
(* What the reader makes of the bytes of an object, and of bytes that are  *)
(* none.                                                                   *)
(***************************************************************************)
\* The number that tlv_next makes of a tag.
TagNumber(n, x, y) == IF n = 1 THEN x ELSE 256 * x + y

\* tlv_next at p finds a tag of n bytes, a length in the given form, and v bytes of value.
Reads(b, p, e, n, form, v) ==
  tlv_next(b, p, e) =
    [st |-> "OK", tag |-> TagNumber(n, At(b, p), At(b, p + 1)),
     from |-> p + n + 1 + form, to |-> p + n + 1 + form + v, read |-> p + n + 1 + form]

\* Where a tag, a length and as many bytes as it says stand in the window of the
\* reader, tlv_next returns them.
LEMMA TlvReads ==
  ASSUME NEW b \in Seq(Octet), NEW p \in Nat, NEW e \in Nat,
         NEW n \in {1, 2}, NEW form \in 0 .. 2, NEW v \in Nat,
         p + n + 1 + form + v <= e,
         TagIs(n, At(b, p), At(b, p + 1)),
         LengthIs(form, v, At(b, p + n), At(b, p + n + 1), At(b, p + n + 2))
  PROVE  Reads(b, p, e, n, form, v)
<1> DEFINE t0 == At(b, p)
           t1 == At(b, p + 1)
           high == t0 % 32 = 31
           lpos == IF high THEN p + 2 ELSE p + 1
           l0 == At(b, lpos)
           nbytes == IF l0 < 128 THEN 0 ELSE l0 - 128
           from == lpos + 1 + nbytes
           length == IF nbytes = 0 THEN l0
                     ELSE IF nbytes = 1 THEN At(b, lpos + 1)
                     ELSE 256 * At(b, lpos + 1) + At(b, lpos + 2)
           o == tlv_next(b, p, e)
<1>1. o = IF p >= e THEN NoObject("END", p)
          ELSE IF high /\ p + 1 >= e THEN NoObject("ERR_TRUNCATED", p + 1)
          ELSE IF high /\ t1 >= 128 THEN NoObject("ERR_TAG", p + 2)
          ELSE IF lpos >= e THEN NoObject("ERR_TRUNCATED", lpos)
          ELSE IF l0 \in {128, 255} \/ nbytes > TLV_MAX_LEN_BYTES
               THEN NoObject("ERR_LENGTH", lpos + 1)
          ELSE IF from > e THEN NoObject("ERR_TRUNCATED", lpos + 1)
          ELSE IF from + length > e THEN NoObject("ERR_TRUNCATED", from)
          ELSE [st |-> "OK", tag |-> IF high THEN 256 * t0 + t1 ELSE t0,
                from |-> from, to |-> from + length, read |-> from]
  BY DEF tlv_next
<1>2. (high <=> n = 2) /\ (high => t1 < 128)
  BY DEF TagIs
<1>3. lpos = p + n
  BY <1>2
<1>4. t1 \in 0 .. 255
  <2>1. p + 1 \in Nat
    OBVIOUS
  <2> QED
    BY <2>1, AtIsOctet, Zenon
<1>5. l0 = At(b, p + n) /\ At(b, lpos + 1) = At(b, p + n + 1) /\ At(b, lpos + 2) = At(b, p + n + 2)
  BY <1>3
<1> HIDE DEF t0, t1, high, lpos, l0
<1>6. l0 \notin {128, 255} /\ nbytes = form /\ length = v
  <2>1. CASE form = 0
    BY <1>5, <2>1 DEF LengthIs
  <2>2. CASE form = 1
    BY <1>5, <2>2 DEF LengthIs
  <2>3. CASE form = 2
    <3>1. l0 = 130 /\ v = 256 * At(b, lpos + 1) + At(b, lpos + 2)
      BY <1>5, <2>3 DEF LengthIs
    <3>2. nbytes = 2
      BY <3>1
    <3> QED
      BY <2>3, <3>1, <3>2
  <2> QED
    BY <2>1, <2>2, <2>3
<1> HIDE DEF nbytes, length
<1>7. from = p + n + 1 + form /\ from + length = p + n + 1 + form + v
  BY <1>3, <1>6
<1> HIDE DEF from, o
<1>8. /\ ~(p >= e) /\ ~(high /\ p + 1 >= e) /\ ~(high /\ t1 >= 128) /\ ~(lpos >= e)
      /\ ~(from > e) /\ ~(from + length > e) /\ ~(nbytes > TLV_MAX_LEN_BYTES)
  <2>1. ~(high /\ t1 >= 128)
    BY <1>2, <1>4
  <2>2. ~(nbytes > TLV_MAX_LEN_BYTES)
    BY <1>6 DEF TLV_MAX_LEN_BYTES
  <2> QED
    BY <1>2, <1>3, <1>7, <2>1, <2>2
<1>9. o = [st |-> "OK", tag |-> IF high THEN 256 * t0 + t1 ELSE t0,
           from |-> from, to |-> from + length, read |-> from]
  BY <1>1, <1>6, <1>8, Zenon
<1>10. (IF high THEN 256 * t0 + t1 ELSE t0) = TagNumber(n, t0, t1)
  BY <1>2, SMT DEF TagNumber
<1> QED
  BY <1>7, <1>9, <1>10, Zenon DEF o, t0, t1, Reads

\* The bytes s are in b from position p on.
Holds(b, p, s) == \A j \in 1 .. Len(s) : At(b, p + j - 1) = s[j]

\* What tlv_next says of an object whose bytes are at p: where it is, and its value.
Finds(b, p, e, tag, val, s) ==
  LET o == tlv_next(b, p, e)
  IN /\ o.st = "OK" /\ o.tag = TagNumber(Len(tag), tag[1], tag[2])
     /\ o.to = p + Len(s) /\ o.from = o.to - Len(val) /\ o.from \in Nat
     /\ ~IsPadding(At(b, p)) /\ p < e
     /\ \A j \in 1 .. Len(val) : At(b, o.from + j - 1) = val[j]

\* Where the bytes of an object stand in the window, tlv_next returns that object.
LEMMA TlvFinds ==
  ASSUME NEW b \in Seq(Octet), NEW p \in Nat, NEW e \in Nat,
         NEW s \in Seq(Octet), NEW tag, NEW form, NEW val, Encodes(s, tag, form, val),
         Holds(b, p, s), p + Len(s) <= e
  PROVE  Finds(b, p, e, tag, val, s)
<1> DEFINE n == Len(tag)
           v == Len(val)
           o == tlv_next(b, p, e)
           Laid(S, T, F, V) ==
             /\ T \in Seq(Octet) /\ V \in Seq(Octet) /\ S \in Seq(Octet)
             /\ F \in 0 .. 2 /\ Len(T) \in {1, 2}
             /\ Len(S) = Len(T) + 1 + F + Len(V)
             /\ TagIs(Len(T), S[1], S[2])
             /\ LengthIs(F, Len(V), S[Len(T) + 1], S[Len(T) + 2], S[Len(T) + 3])
             /\ \A j \in 1 .. Len(T) : S[j] = T[j]
             /\ \A j \in 1 .. Len(V) : S[Len(T) + 1 + F + j] = V[j]
<1>0. Laid(s, tag, form, val)
  <2>1. \A S, T, F, V : Encodes(S, T, F, V) => Laid(S, T, F, V)
    BY ONLY ObjectBytes, Zenon
  <2> HIDE DEF Laid
  <2> QED
    BY <2>1, Zenon
<1>1. /\ form \in 0 .. 2 /\ n \in {1, 2}
      /\ tag \in Seq(Octet) /\ val \in Seq(Octet)
      /\ Len(s) = n + 1 + form + v
      /\ TagIs(n, s[1], s[2])
      /\ LengthIs(form, v, s[n + 1], s[n + 2], s[n + 3])
  BY <1>0, Zenon
<1>1a. \A j \in 1 .. n : s[j] = tag[j]
  BY <1>0, Zenon
<1>1b. \A j \in 1 .. v : s[n + 1 + form + j] = val[j]
  BY <1>0, Zenon
<1> HIDE DEF Laid
<1>2. v \in Nat
  BY <1>1
<1> HIDE DEF n, v, o
<1>2a. PICK z \in Nat : z = Len(s)
  OBVIOUS
<1>2b. form \in {0, 1, 2} /\ z = n + 1 + form + v /\ p + z <= e /\ n \in Nat /\ form \in Nat
  BY <1>1, <1>2a
<1>3. \A j \in 1 .. z : At(b, p + j - 1) = s[j]
  BY <1>2a DEF Holds
<1>4. /\ At(b, p) = s[1]
      /\ At(b, p + 1) = s[2]
      /\ At(b, p + n) = s[n + 1]
      /\ form \in {1, 2} => At(b, p + n + 1) = s[n + 2]
      /\ form = 2 => At(b, p + n + 2) = s[n + 3]
  <2>1. /\ 1 \in 1 .. z /\ p + 1 - 1 = p
        /\ 2 \in 1 .. z /\ p + 2 - 1 = p + 1
        /\ n + 1 \in 1 .. z /\ p + (n + 1) - 1 = p + n
        /\ form \in {1, 2} => n + 2 \in 1 .. z /\ p + (n + 2) - 1 = p + n + 1
        /\ form = 2 => n + 3 \in 1 .. z /\ p + (n + 3) - 1 = p + n + 2
    <3>1. 1 \in 1 .. z /\ p + 1 - 1 = p /\ 2 \in 1 .. z /\ p + 2 - 1 = p + 1
      BY <1>1, <1>2, <1>2b
    <3>2. n + 1 \in 1 .. z /\ p + (n + 1) - 1 = p + n
      BY <1>1, <1>2, <1>2b
    <3>3. form \in {1, 2} => n + 2 \in 1 .. z /\ p + (n + 2) - 1 = p + n + 1
      BY <1>1, <1>2, <1>2b
    <3>4. form = 2 => n + 3 \in 1 .. z /\ p + (n + 3) - 1 = p + n + 2
      BY <1>1, <1>2, <1>2b
    <3> QED
      BY <3>1, <3>2, <3>3, <3>4
  <2> QED
    BY <1>3, <2>1
<1>5. TagIs(n, At(b, p), At(b, p + 1))
  BY <1>1, <1>4
<1>6. LengthIs(form, v, At(b, p + n), At(b, p + n + 1), At(b, p + n + 2))
  <2>1. LengthIs(form, v, s[n + 1], s[n + 2], s[n + 3])
    BY <1>1
  <2>2. CASE form = 0
    BY <1>4, <2>1, <2>2, SMT DEF LengthIs
  <2>3. CASE form = 1
    <3>1. At(b, p + n) = s[n + 1] /\ At(b, p + n + 1) = s[n + 2]
      BY <1>4, <2>3
    <3> QED
      BY <2>1, <2>3, <3>1, SMT DEF LengthIs
  <2>4. CASE form = 2
    <3>1. At(b, p + n) = s[n + 1] /\ At(b, p + n + 1) = s[n + 2] /\ At(b, p + n + 2) = s[n + 3]
      BY <1>4, <2>4
    <3> QED
      BY <2>1, <2>4, <3>1, SMT DEF LengthIs
  <2> QED
    BY <1>2b, <2>2, <2>3, <2>4
<1>7. p + n + 1 + form + v <= e
  BY <1>2, <1>2b
<1>8. o = [st |-> "OK", tag |-> TagNumber(n, At(b, p), At(b, p + 1)),
           from |-> p + n + 1 + form, to |-> p + n + 1 + form + v, read |-> p + n + 1 + form]
  <2>1. Reads(b, p, e, n, form, v)
    BY <1>1, <1>2, <1>5, <1>6, <1>7, TlvReads
  <2> QED
    BY <2>1, Zenon DEF o, Reads
<1>9. TagNumber(n, At(b, p), At(b, p + 1)) = TagNumber(n, tag[1], tag[2])
  <2>1. 1 \in 1 .. n /\ (n # 1 => 2 \in 1 .. n)
    BY <1>1
  <2>2. s[1] = tag[1] /\ (n # 1 => s[2] = tag[2])
    BY <1>1a, <2>1
  <2> QED
    BY <1>4, <2>2 DEF TagNumber
<1>10. o.st = "OK" /\ o.from = p + n + 1 + form /\ o.to = p + z /\ o.from = o.to - v
       /\ o.from \in Nat
  BY <1>2, <1>2b, <1>8
<1>11. \A j \in 1 .. v : At(b, o.from + j - 1) = val[j]
  <2>1. \A j \in 1 .. v : /\ n + 1 + form + j \in 1 .. z
                          /\ p + (n + 1 + form + j) - 1 = o.from + j - 1
    BY <1>2, <1>2b, <1>10
  <2> QED
    BY <1>1b, <1>3, <2>1
<1>12. ~IsPadding(At(b, p)) /\ p < e
  <2>1. p < e
    BY <1>1, <1>2, <1>2b, <1>7
  <2>2. At(b, p) \in 0 .. 255
    BY AtIsOctet
  <2>3. At(b, p) # 0 /\ At(b, p) # 255
    BY <1>5, <2>2 DEF TagIs
  <2> QED
    BY <2>1, <2>3 DEF IsPadding
<1>13. o.tag = TagNumber(n, tag[1], tag[2])
  BY <1>8, <1>9
<1> QED
  BY <1>2a, <1>10, <1>11, <1>12, <1>13 DEF Finds, o, n, v

\* The other way round: where tlv_next finds an object, its bytes are a tag, a
\* length in one of the forms, and a value of that length.
Shape(b, p, e, n, form, v) ==
  /\ n \in {1, 2} /\ form \in 0 .. 2 /\ v \in Nat
  /\ TagIs(n, At(b, p), At(b, p + 1))
  /\ LengthIs(form, v, At(b, p + n), At(b, p + n + 1), At(b, p + n + 2))
  /\ p + n + 1 + form + v <= e

\* The length bytes of a form are determined by the length.
LengthOctets(form, v, x, y, z) ==
  /\ x \in 0 .. 255 /\ (form > 0 => y \in 0 .. 255) /\ (form > 1 => z \in 0 .. 255)
  /\ LengthIs(form, v, x, y, z)

\* Nothing is read from a broken tail.
LEMMA TlvNothing ==
  \A b, s \in Seq(Octet), p, e \in Nat :
    IsBroken(s) /\ Holds(b, p, s) /\ e = p + Len(s) /\ e <= Len(b) =>
      p < e /\ ~IsPadding(At(b, p)) /\ tlv_next(b, p, e).st \notin {"OK", "END"}
\* Conversely, what tlv_next returns are bytes of an object.
<1>TlvShape.
    ASSUME NEW b \in Seq(Octet), NEW p \in Nat, NEW e \in Nat,
           ~IsPadding(At(b, p)), tlv_next(b, p, e).st = "OK"
    PROVE  \E n, form, v : Shape(b, p, e, n, form, v)
  <2> DEFINE t0 == At(b, p)
             t1 == At(b, p + 1)
             high == t0 % 32 = 31
             lpos == IF high THEN p + 2 ELSE p + 1
             l0 == At(b, lpos)
             l1 == At(b, lpos + 1)
             l2 == At(b, lpos + 2)
             nbytes == IF l0 < 128 THEN 0 ELSE l0 - 128
             from == lpos + 1 + nbytes
             length == IF nbytes = 0 THEN l0
                       ELSE IF nbytes = 1 THEN l1
                       ELSE 256 * l1 + l2
             o == tlv_next(b, p, e)
             n == IF high THEN 2 ELSE 1
  <2>1. o = IF p >= e THEN NoObject("END", p)
            ELSE IF high /\ p + 1 >= e THEN NoObject("ERR_TRUNCATED", p + 1)
            ELSE IF high /\ t1 >= 128 THEN NoObject("ERR_TAG", p + 2)
            ELSE IF lpos >= e THEN NoObject("ERR_TRUNCATED", lpos)
            ELSE IF l0 \in {128, 255} \/ nbytes > TLV_MAX_LEN_BYTES
                 THEN NoObject("ERR_LENGTH", lpos + 1)
            ELSE IF from > e THEN NoObject("ERR_TRUNCATED", lpos + 1)
            ELSE IF from + length > e THEN NoObject("ERR_TRUNCATED", from)
            ELSE [st |-> "OK", tag |-> IF high THEN 256 * t0 + t1 ELSE t0,
                  from |-> from, to |-> from + length, read |-> from]
    BY DEF tlv_next
  <2>2. lpos = p + n /\ n \in {1, 2} /\ (high <=> n = 2) /\ n \in Nat
    OBVIOUS
  <2>3. t0 \in 0 .. 255 /\ t1 \in 0 .. 255
    <3>1. p + 1 \in Nat
      OBVIOUS
    <3> QED
      BY <3>1, AtIsOctet, Zenon
  <2>4. l0 \in 0 .. 255 /\ l1 \in 0 .. 255 /\ l2 \in 0 .. 255
    <3> HIDE DEF lpos, n
    <3>1. lpos \in Nat /\ lpos + 1 \in Nat /\ lpos + 2 \in Nat
      BY <2>2
    <3> QED
      BY <3>1, AtIsOctet, Zenon
  <2>5. o.st = "OK"
    BY <1>TlvShape
  <2>6. t0 # 0 /\ t0 # 255
    BY <1>TlvShape DEF IsPadding
  <2>7. /\ l0 = At(b, p + n)
        /\ l1 = At(b, p + n + 1)
        /\ l2 = At(b, p + n + 2)
    BY <2>2
  <2> HIDE DEF t0, t1, high, lpos, l0, l1, l2, nbytes, from, length, o, n
  <2>8. ~(high /\ t1 >= 128)
    BY <2>1, <2>5, SMT DEF NoObject
  <2>9. ~(l0 \in {128, 255} \/ nbytes > TLV_MAX_LEN_BYTES)
    BY <2>1, <2>5, SMT DEF NoObject
  <2>10. ~(from + length > e)
    BY <2>1, <2>5, SMT DEF NoObject
  <2>11. TagIs(n, t0, t1)
    <3>1. CASE n = 1
      BY <2>2, <2>6, <3>1 DEF TagIs, high
    <3>2. CASE n = 2
      <4>1. high /\ t1 < 128
        BY <2>2, <2>3, <2>8, <3>2
      <4> QED
        BY <2>6, <3>2, <4>1 DEF TagIs, high
    <3> QED
      BY <2>2, <3>1, <3>2
  <2>12. nbytes \in 0 .. 2 /\ length \in Nat /\ LengthIs(nbytes, length, l0, l1, l2)
    <3>1. CASE l0 < 128
      <4>1. nbytes = 0 /\ length = l0
        BY <3>1 DEF nbytes, length
      <4> QED
        BY <2>4, <3>1, <4>1 DEF LengthIs
    <3>2. CASE ~(l0 < 128)
      <4>1. nbytes = l0 - 128
        BY <3>2 DEF nbytes
      <4>2. nbytes \in {1, 2}
        BY <2>4, <2>9, <3>2, <4>1 DEF TLV_MAX_LEN_BYTES
      <4>3. CASE nbytes = 1
        <5>1. length = l1 /\ l0 = 129
          BY <2>4, <4>1, <4>3 DEF length
        <5> QED
          BY <2>4, <4>3, <5>1 DEF LengthIs
      <4>4. CASE nbytes = 2
        <5>1. length = 256 * l1 + l2 /\ l0 = 130
          BY <2>4, <4>1, <4>4 DEF length
        <5>2. length \in Nat /\ length < 65536
          BY <2>4, <5>1
        <5> QED
          BY <4>4, <5>1, <5>2 DEF LengthIs
      <4> QED
        BY <4>2, <4>3, <4>4
    <3> QED
      BY <3>1, <3>2
  <2>13. p + n + 1 + nbytes + length <= e
    <3>1. from + length = p + n + 1 + nbytes + length
      BY <2>2 DEF from
    <3>2. from + length \in Nat
      BY <2>2, <2>12, <3>1
    <3> QED
      BY <2>10, <3>1, <3>2
  <2>14. Shape(b, p, e, n, nbytes, length)
    BY <2>2, <2>7, <2>11, <2>12, <2>13 DEF Shape, t0, t1
  <2> QED
    BY <2>14, Zenon
\* Two spellings of one length in one form are the same.
<1>LengthIsOne.
    ASSUME NEW form \in 0 .. 2, NEW v \in Nat, NEW x, NEW y, NEW z, NEW u, NEW v1, NEW w,
           LengthOctets(form, v, x, y, z), LengthOctets(form, v, u, v1, w)
    PROVE  x = u /\ (form > 0 => y = v1) /\ (form > 1 => z = w)
  <2>1. CASE form = 0
    BY <1>LengthIsOne, <2>1 DEF LengthIs, LengthOctets
  <2>2. CASE form = 1
    BY <1>LengthIsOne, <2>2 DEF LengthIs, LengthOctets
  <2>3. CASE form = 2
    <3>1. 256 * y + z = 256 * v1 + w /\ x = u
      BY <1>LengthIsOne, <2>3 DEF LengthIs, LengthOctets
    <3>2. y \in 0 .. 255 /\ z \in 0 .. 255 /\ v1 \in 0 .. 255 /\ w \in 0 .. 255
      BY <1>LengthIsOne, <2>3 DEF LengthOctets
    <3> QED
      BY <3>1, <3>2
  <2> QED
    BY <2>1, <2>2, <2>3
\* Bytes of that shape are the encoding of an object.
<1>ShapeIsObject.
    ASSUME NEW s \in Seq(Octet), NEW n \in {1, 2}, NEW form \in 0 .. 2, NEW v \in Nat,
           Len(s) = n + 1 + form + v,
           TagIs(n, s[1], s[2]),
           LengthIs(form, v, s[n + 1], s[n + 2], s[n + 3])
    PROVE  IsObject(s)
  <2> DEFINE tag == SubSeq(s, 1, n)
             val == SubSeq(s, n + form + 2, Len(s))
             l == LengthField(form, v)
             f == Object(tag, form, val)
  <2>0. PICK z \in Nat : z = Len(s)
    OBVIOUS
  <2>1. n \in Nat /\ form \in Nat /\ n \in 1 .. 2 /\ z = n + 1 + form + v
    BY <1>ShapeIsObject, <2>0
  <2>2. tag \in Seq(Octet) /\ Len(tag) = n /\ \A k \in 1 .. n : tag[k] = s[k]
    <3>1. n <= Len(s) /\ 1 <= n + 1
      BY <2>0, <2>1
    <3>2. \A k \in 1 .. n - 1 + 1 : tag[k] = s[1 + k - 1]
      BY <2>1, <3>1, Stretch
    <3>3. n - 1 + 1 = n /\ \A k \in 1 .. n : 1 + k - 1 = k
      BY <2>1
    <3>4. tag \in Seq(Octet) /\ Len(tag) = n - 1 + 1
      BY <2>1, <3>1, Stretch
    <3> HIDE DEF tag
    <3> QED
      BY <3>2, <3>3, <3>4, Zenon
  <2>3. val \in Seq(Octet) /\ Len(val) = v /\ \A k \in 1 .. v : val[k] = s[n + (1 + form) + k]
    <3> DEFINE i == n + form + 2
    <3>1. i \in Nat /\ 1 <= i /\ i <= z + 1 /\ z - i + 1 = v
      BY <2>1
    <3>2. /\ val \in Seq(Octet) /\ Len(val) = z - i + 1
          /\ \A k \in 1 .. z - i + 1 : val[k] = s[i + k - 1]
      <4> HIDE DEF i
      <4>1. /\ SubSeq(s, i, z) \in Seq(Octet) /\ Len(SubSeq(s, i, z)) = z - i + 1
            /\ \A k \in 1 .. z - i + 1 : SubSeq(s, i, z)[k] = s[i + k - 1]
        BY <2>0, <3>1, Stretch
      <4> QED
        BY <2>0, <4>1 DEF i
    <3>3. \A k \in 1 .. v : i + k - 1 = n + (1 + form) + k
      BY <2>1
    <3> HIDE DEF i, val
    <3> QED
      BY <3>1, <3>2, <3>3, Zenon
  <2>4. Fits(form, v)
    BY <1>ShapeIsObject DEF LengthIs, Fits
  <2>5. l \in Seq(Octet) /\ Len(l) = 1 + form /\ LengthIs(form, v, l[1], l[2], l[3])
    BY <2>4, LengthBytes
  <2> HIDE DEF tag, val, l
  <2>6. \A k \in 1 .. 1 + form : l[k] = s[n + k]
    <3>1. /\ l[1] \in 0 .. 255 /\ s[n + 1] \in 0 .. 255
          /\ form > 0 => l[2] \in 0 .. 255 /\ s[n + 2] \in 0 .. 255
          /\ form > 1 => l[3] \in 0 .. 255 /\ s[n + 3] \in 0 .. 255
      <4>1. /\ 1 \in 1 .. Len(l) /\ n + 1 \in 1 .. z
            /\ form > 0 => 2 \in 1 .. Len(l) /\ n + 2 \in 1 .. z
            /\ form > 1 => 3 \in 1 .. Len(l) /\ n + 3 \in 1 .. z
        BY <2>1, <2>5
      <4>2. Octet = 0 .. 255
        BY DEF Octet
      <4>3. l[1] \in Octet /\ (form > 0 => l[2] \in Octet) /\ (form > 1 => l[3] \in Octet)
        BY <2>5, <4>1
      <4>4. s[n + 1] \in Octet /\ (form > 0 => s[n + 2] \in Octet) /\ (form > 1 => s[n + 3] \in Octet)
        BY <2>0, <4>1
      <4> QED
        BY <4>2, <4>3, <4>4, Zenon
    <3>2. /\ l[1] = s[n + 1]
          /\ form > 0 => l[2] = s[n + 2]
          /\ form > 1 => l[3] = s[n + 3]
      <4>1. LengthOctets(form, v, l[1], l[2], l[3])
        BY <2>5, <3>1, Zenon DEF LengthOctets
      <4>2. LengthOctets(form, v, s[n + 1], s[n + 2], s[n + 3])
        BY <1>ShapeIsObject, <3>1, Zenon DEF LengthOctets
      <4> QED
        BY <4>1, <4>2, <1>LengthIsOne
    <3>3. ASSUME NEW k \in 1 .. 1 + form PROVE l[k] = s[n + k]
      <4>1. k = 1 \/ (k = 2 /\ form > 0) \/ (k = 3 /\ form > 1)
        BY <2>1
      <4> QED
        BY <3>2, <4>1
    <3> QED
      BY <3>3
  <2> DEFINE c == (tag \o l) \o val
  <2>7. /\ c \in Seq(Octet)
        /\ Len(c) = n + (1 + form) + v
        /\ \A j \in 1 .. n : c[j] = tag[j]
        /\ \A j \in 1 .. 1 + form : c[n + j] = l[j]
        /\ \A j \in 1 .. v : c[n + (1 + form) + j] = val[j]
    <3>1. /\ c \in Seq(Octet)
          /\ Len(c) = Len(tag) + Len(l) + Len(val)
          /\ \A j \in 1 .. Len(tag) : c[j] = tag[j]
          /\ \A j \in 1 .. Len(l) : c[Len(tag) + j] = l[j]
          /\ \A j \in 1 .. Len(val) : c[Len(tag) + Len(l) + j] = val[j]
      <4>1. tag \in Seq(Octet) /\ val \in Seq(Octet) /\ l \in Seq(Octet)
        BY <2>2, <2>3, <2>5
      <4>2. Joins(c, tag, l, val, Octet)
        BY <4>1, ThreeParts, Zenon
      <4> QED
        BY <4>2, Zenon DEF Joins
    <3> HIDE DEF c
    <3> QED
      BY <2>2, <2>3, <2>5, <3>1, Zenon
  <2> HIDE DEF c
  <2>8. c = s
    <3>1. Len(c) = z
      BY <2>1, <2>7
    <3>2. ASSUME NEW k \in 1 .. z PROVE c[k] = s[k]
      <4>1. CASE k <= n
        BY <2>1, <2>2, <2>7, <4>1
      <4>2. CASE k > n /\ k <= n + 1 + form
        <5>1. PICK j \in 1 .. 1 + form : k = n + j
          <6>1. k - n \in 1 .. 1 + form /\ k = n + (k - n)
            BY <2>1, <4>2
          <6> QED
            BY <6>1, Zenon
        <5>2. c[n + j] = l[j] /\ l[j] = s[n + j]
          BY <2>6, <2>7, Zenon
        <5> QED
          BY <5>1, <5>2, Zenon
      <4>3. CASE k > n + 1 + form
        <5>1. PICK j \in 1 .. v : k = n + (1 + form) + j
          <6> DEFINE i == k - (n + 1 + form)
          <6>1. i \in 1 .. v /\ k = n + (1 + form) + i
            BY <2>1, <4>3
          <6> QED
            BY <6>1, Zenon
        <5>2. c[n + (1 + form) + j] = val[j] /\ val[j] = s[n + (1 + form) + j]
          BY <2>3, <2>7, Zenon
        <5> QED
          BY <5>1, <5>2, Zenon
      <4> QED
        BY <2>1, <4>1, <4>2, <4>3
    <3> QED
      BY <2>0, <2>7, <3>1, <3>2, SameElements
  <2>9. IsTag(tag)
    <3>1. 1 \in 1 .. n /\ (n = 2 => 2 \in 1 .. n)
      BY <2>1
    <3>2. tag[1] = s[1] /\ (n = 2 => tag[2] = s[2])
      BY <2>2, <3>1
    <3>3. CASE n = 1
      BY <1>ShapeIsObject, <2>2, <3>2, <3>3 DEF IsTag, TagIs
    <3>4. CASE n = 2
      BY <1>ShapeIsObject, <2>2, <3>2, <3>4 DEF IsTag, TagIs
    <3> QED
      BY <3>3, <3>4
  <2>10. f.tag = tag /\ f.form = form /\ f.value = val /\ f.kind = "object"
    BY DEF Object
  <2>11. IsField(f)
    BY <2>2, <2>3, <2>4, <2>9, <2>10 DEF IsField
  <2>12. Bytes(f) = s
    BY <2>3, <2>8, <2>10 DEF Bytes, c, l
  <2>13. n + form + 1 <= Len(s)
    BY <2>0, <2>1
  <2>14. n \in 1 .. 2 /\ form \in 0 .. 2
    BY <2>1
  <2> QED
    BY <2>11, <2>12, <2>13, <2>14 DEF IsObject, tag, val
<1> SUFFICES ASSUME NEW b \in Seq(Octet), NEW p \in Nat, NEW e \in Nat, NEW s \in Seq(Octet),
                    IsBroken(s), Holds(b, p, s), e = p + Len(s), e <= Len(b)
             PROVE  p < e /\ ~IsPadding(At(b, p)) /\ tlv_next(b, p, e).st \notin {"OK", "END"}
  OBVIOUS
<1>0. PICK z \in Nat : z = Len(s)
  OBVIOUS
<1>1. z >= 1 /\ p < e
  <2>1. s # <<>>
    BY DEF IsBroken
  <2> QED
    BY <1>0, <2>1
<1>2. \A j \in 1 .. z : At(b, p + j - 1) = s[j]
  BY <1>0 DEF Holds
<1>3. ~IsPadding(At(b, p))
  <2>1. 1 \in 1 .. z /\ p + 1 - 1 = p
    BY <1>1
  <2>2. At(b, p) = s[1]
    BY <1>2, <2>1
  <2> QED
    BY <2>2 DEF IsBroken
<1>4. tlv_next(b, p, e).st # "END"
  BY <1>1, TlvNextInWindow
<1>5. ASSUME tlv_next(b, p, e).st = "OK" PROVE FALSE
  <2>1. PICK n, form, v : Shape(b, p, e, n, form, v)
    BY <1>3, <1>5, <1>TlvShape
  <2> DEFINE N == n + 1 + form + v
             r == SubSeq(s, 1, N)
  <2>2. n \in {1, 2} /\ form \in 0 .. 2 /\ v \in Nat /\ n \in Nat /\ form \in Nat
    BY <2>1 DEF Shape
  <2>3. N \in 1 .. z
    <3>1. p + n + 1 + form + v <= p + z
      BY <1>0, <2>1 DEF Shape
    <3> QED
      BY <2>2, <3>1
  <2>4. r \in Seq(Octet) /\ Len(r) = N /\ \A k \in 1 .. N : r[k] = s[k]
    <3>1. N \in Nat /\ N <= Len(s) /\ 1 <= N + 1 /\ N - 1 + 1 = N
          /\ \A k \in 1 .. N : 1 + k - 1 = k
      BY <1>0, <2>3
    <3> HIDE DEF N
    <3>2. r \in Seq(Octet) /\ Len(r) = N - 1 + 1 /\ \A k \in 1 .. N - 1 + 1 : r[k] = s[1 + k - 1]
      BY <3>1, Stretch
    <3> HIDE DEF r
    <3> QED
      BY <3>1, <3>2, Zenon
  <2>5. \A k \in 1 .. N : r[k] = At(b, p + k - 1)
    <3> HIDE DEF N, r
    <3>1. \A k \in 1 .. N : k \in 1 .. z
      BY <2>3
    <3> QED
      BY <1>2, <2>4, <3>1
  <2> HIDE DEF r
  <2>6. TagIs(n, r[1], r[2])
    <3>1. 1 \in 1 .. N /\ (n = 2 => 2 \in 1 .. N) /\ p + 1 - 1 = p /\ p + 2 - 1 = p + 1
      BY <2>2
    <3> HIDE DEF N
    <3>2. r[1] = At(b, p) /\ (n = 2 => r[2] = At(b, p + 1))
      BY <2>5, <3>1
    <3>3. TagIs(n, At(b, p), At(b, p + 1))
      BY <2>1 DEF Shape
    <3> QED
      BY <3>2, <3>3 DEF TagIs
  <2>7. LengthIs(form, v, r[n + 1], r[n + 2], r[n + 3])
    <3>1. /\ n + 1 \in 1 .. N /\ p + (n + 1) - 1 = p + n
          /\ form > 0 => n + 2 \in 1 .. N /\ p + (n + 2) - 1 = p + n + 1
          /\ form > 1 => n + 3 \in 1 .. N /\ p + (n + 3) - 1 = p + n + 2
      BY <2>2
    <3> HIDE DEF N
    <3>2. /\ r[n + 1] = At(b, p + n)
          /\ form > 0 => r[n + 2] = At(b, p + n + 1)
          /\ form > 1 => r[n + 3] = At(b, p + n + 2)
      BY <2>5, <3>1
    <3>3. LengthIs(form, v, At(b, p + n), At(b, p + n + 1), At(b, p + n + 2))
      BY <2>1 DEF Shape
    <3>4. CASE form = 0
      BY <3>2, <3>3, <3>4 DEF LengthIs
    <3>5. CASE form = 1
      BY <3>2, <3>3, <3>5 DEF LengthIs
    <3>6. CASE form = 2
      BY <3>2, <3>3, <3>6 DEF LengthIs
    <3> QED
      BY <2>2, <3>4, <3>5, <3>6
  <2>8. IsObject(r)
    BY <2>2, <2>4, <2>6, <2>7, <1>ShapeIsObject
  <2> QED
    BY <1>0, <2>3, <2>8 DEF IsBroken, r
<1> QED
  BY <1>1, <1>3, <1>4, <1>5
=============================================================================
