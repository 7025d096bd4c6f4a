--------------------------- MODULE FcpTextProofs ---------------------------
(***************************************************************************)
(* The parser of CREATE FILE decodes what a text means, for every text of  *)
(* the grammar of FcpMeaning, and so what SELECT returns of a file creates *)
(* the same file again: what the switch makes of a field, where the fields *)
(* stand in the bytes of the command, and the invariant that after k of    *)
(* them the parser holds what k fields mean.                               *)
(***************************************************************************)
EXTENDS FcpProofs

-----------------------------------------------------------------------------
(***************************************************************************)
(* What the switch over the tag makes of the value of a field.             *)
(***************************************************************************)
\* A value of one byte.
LEMMA OneByte ==
  ASSUME NEW val \in Seq(Octet), Len(val) = 1
  PROVE  /\ val = <<val[1]>>
         /\ \A x : (val = <<x>> <=> val[1] = x)
OBVIOUS

\* The number of a tag is that of one byte only if the tag is that byte.
Same(n, tag, x) == n = x <=> tag = <<x>>

\* Different tags have different numbers, as far as the switch compares them.
LEMMA TagOfOneByte ==
  ASSUME NEW tag \in Seq(Octet), IsTag(tag), NEW x \in 0 .. 255
  PROVE  Same(TagNumber(Len(tag), tag[1], tag[2]), tag, x)
<1>1. CASE Len(tag) = 1
  BY <1>1, OneByte DEF TagNumber, Same
<1>2. CASE Len(tag) = 2
  <2>1. PICK a \in 0 .. 255, b \in 0 .. 255 : a = tag[1] /\ b = tag[2]
    <3>1. tag[1] \in 0 .. 255 /\ tag[2] \in 0 .. 255
      <4>1. tag[1] \in Octet /\ tag[2] \in Octet
        BY <1>2
      <4> QED
        BY <4>1 DEF Octet
    <3> QED
      BY <3>1, Zenon
  <2>2. a % 32 = 31
    BY <1>2, <2>1 DEF IsTag
  <2>3. a # 0
    BY <2>2
  <2>4. 256 * a + b # x
    BY <2>3
  <2>5. tag # <<x>>
    BY <1>2
  <2> QED
    BY <1>2, <2>1, <2>4, <2>5 DEF TagNumber, Same
<1> QED
  BY <1>1, <1>2 DEF IsTag

(* What the switch over the tag makes of the value of a field.             *)
(***************************************************************************)
\* The value of the object o is val.
ValueAt(o, val) ==
  /\ o.from \in Nat /\ o.to = o.from + Len(val)
  /\ \A j \in 1 .. Len(val) : At(body, o.from + j - 1) = val[j]

\* The file descriptor bytes, by value.
MeansType(v, x) ==
  /\ x = "DF" <=> v \in {56, 120}
  /\ x = "EF" <=> v \in {1, 65}
  /\ x = "UNSUPPORTED" <=> v \in (0 .. 55) \cup (64 .. 119) /\ v \notin {1, 65}
  /\ x \in {"DF", "EF", "UNSUPPORTED", "MALFORMED"}

\* The names that the tag of an object can have.
Names == {"type", "fid", "size", "lifecycle", "sfi", "other"}

\* The name of an object says which of the tags it has.
TagFits(f, n) ==
  /\ n = TAG_FILE_DESC <=> Name(f) = "type"
  /\ n = TAG_FILE_ID <=> Name(f) = "fid"
  /\ n = TAG_DATA_BYTES <=> Name(f) = "size"
  /\ n = TAG_LIFE_CYCLE <=> Name(f) = "lifecycle"
  /\ n = TAG_SFI <=> Name(f) = "sfi"
  /\ Name(f) \in Names

\* The switch refuses what a field does not say, and takes what it says.
Decodes(f, o) ==
  \/ /\ Says(f) = {} /\ object_sw(o) = Fault(f)
     /\ Fault(f) # "none" /\ Fault(f) # "9000"
  \/ \E w : /\ Says(f) = {w} /\ Fault(f) = "none"
            /\ object_sw(o) = "9000" /\ object_req(o) = With(req, Name(f), w)

\* Every object is decoded as it is meant, unless its tag has been seen.
LEMMA FieldDecodes ==
  \A f, o :
    /\ IsField(f) /\ f.kind = "object" /\ ValueAt(o, f.value)
    /\ o.tag = TagNumber(Len(f.tag), f.tag[1], f.tag[2])
    => /\ TagFits(f, o.tag)
       /\ o.tag \in have => object_sw(o) = "6A80"
       /\ o.tag \notin have => Decodes(f, o)
\* The first two bytes of a value, where it has them.
<1>FirstBytes.
    ASSUME NEW o, NEW val \in Seq(Octet), NEW n \in Nat, n = Len(val), ValueAt(o, val)
    PROVE  /\ o.from \in Nat /\ o.to \in Nat /\ o.to - o.from = n
           /\ n >= 1 => At(body, o.from) = val[1] /\ val[1] \in 0 .. 255
           /\ n >= 2 => At(body, o.from + 1) = val[2] /\ val[2] \in 0 .. 255
  <2>1. o.from \in Nat /\ o.to = o.from + n
        /\ \A j \in 1 .. n : At(body, o.from + j - 1) = val[j]
    BY <1>FirstBytes DEF ValueAt
  <2>2. \A j \in 1 .. n : val[j] \in 0 .. 255
    BY <1>FirstBytes DEF Octet
  <2>3. n >= 1 => 1 \in 1 .. n /\ o.from + 1 - 1 = o.from
    BY <2>1
  <2>4. n >= 2 => 2 \in 1 .. n /\ o.from + 2 - 1 = o.from + 1
    BY <2>1
  <2>5. o.to \in Nat /\ o.to - o.from = n
    BY <2>1
  <2>6. n >= 1 => At(body, o.from) = val[1] /\ val[1] \in 0 .. 255
    BY <2>1, <2>2, <2>3
  <2>7. n >= 2 => At(body, o.from + 1) = val[2] /\ val[2] \in 0 .. 255
    BY <2>1, <2>2, <2>4
  <2> QED
    BY <2>1, <2>5, <2>6, <2>7
\* tlv_get_uint computes the number that the bytes stand for.
<1>UintIs.
    ASSUME NEW o, NEW val \in Seq(Octet), NEW n \in 1 .. 4, n = Len(val), ValueAt(o, val)
    PROVE  tlv_get_uint(body, o) = Number(val) /\ Number(val) \in Nat
  <2> DEFINE digit(k) == IF o.from + k < o.to THEN At(body, o.to - 1 - k) ELSE 0
  <2>1. o.from \in Nat /\ o.to = o.from + n
        /\ \A j \in 1 .. n : At(body, o.from + j - 1) = val[j]
    BY <1>UintIs DEF ValueAt
  <2>2. \A j \in 1 .. n : val[j] \in 0 .. 255
    BY <1>UintIs DEF Octet
  <2>3. ASSUME NEW k \in 0 .. 3
        PROVE  digit(k) = IF k < n THEN val[n - k] ELSE 0
    <3>1. CASE k < n
      <4>1. PICK a \in Nat : a = o.from
        BY <2>1
      <4>2. n - k \in 1 .. n /\ a + k < a + n /\ a + (n - k) - 1 = a + n - 1 - k
        BY <3>1
      <4>3. At(body, a + (n - k) - 1) = val[n - k]
        BY <2>1, <4>1, <4>2
      <4>4. o.to = a + n
        BY <2>1, <4>1
      <4>5. digit(k) = At(body, a + n - 1 - k)
        <5>1. o.from + k < o.to
          BY <4>1, <4>2, <4>4, SMT
        <5>2. digit(k) = At(body, o.to - 1 - k)
          BY <5>1, Zenon
        <5>3. o.to - 1 - k = a + n - 1 - k
          BY <4>4, SMT
        <5> QED
          BY <5>2, <5>3, Zenon
      <4> QED
        BY <3>1, <4>2, <4>3, <4>5
    <3>2. CASE ~(k < n)
      BY <2>1, <3>2
    <3> QED
      BY <3>1, <3>2
  <2>4. tlv_get_uint(body, o)
          = digit(0) + 256 * digit(1) + 65536 * digit(2) + 16777216 * digit(3)
    BY SMT DEF tlv_get_uint
  <2>5. PICK w, x, y, z : w = digit(0) /\ x = digit(1) /\ y = digit(2) /\ z = digit(3)
    <3> HIDE DEF digit
    <3> QED
      OBVIOUS
  <2>6. /\ w = val[n]
        /\ x = IF 1 < n THEN val[n - 1] ELSE 0
        /\ y = IF 2 < n THEN val[n - 2] ELSE 0
        /\ z = IF 3 < n THEN val[n - 3] ELSE 0
    <3>1. 0 \in 0 .. 3 /\ 1 \in 0 .. 3 /\ 2 \in 0 .. 3 /\ 3 \in 0 .. 3 /\ 0 < n /\ n - 0 = n
      OBVIOUS
    <3> HIDE DEF digit
    <3> QED
      BY <2>3, <2>5, <3>1
  <2> DEFINE u == w + 256 * x + 65536 * y + 16777216 * z
  <2>7. tlv_get_uint(body, o) = u
    BY <2>4, <2>5, SMT
  <2> HIDE DEF digit, u
  <2>8. CASE n = 1
    <3>1. PICK a \in 0 .. 255 : a = val[1]
      BY <2>2, <2>8, SMT
    <3>2. Number(val) = a
      BY <1>UintIs, <2>8, <3>1, SMT DEF Number
    <3>3. w = a /\ x = 0 /\ y = 0 /\ z = 0
      BY <2>6, <2>8, <3>1, SMT
    <3>4. u = a
      BY <3>3, SMT DEF u
    <3> QED
      BY <2>7, <3>2, <3>4, SMT
  <2>9. CASE n = 2
    <3>1. PICK a \in 0 .. 255, b \in 0 .. 255 : a = val[1] /\ b = val[2]
      <4>1. val[1] \in 0 .. 255 /\ val[2] \in 0 .. 255
        BY <2>2, <2>9, SMT
      <4> QED
        BY <4>1, Zenon
    <3>2. Number(val) = 256 * a + b
      BY <1>UintIs, <2>9, <3>1, SMT DEF Number
    <3>3. w = b /\ x = a /\ y = 0 /\ z = 0
      BY <2>6, <2>9, <3>1, SMT
    <3>4. u = 256 * a + b /\ 256 * a + b \in Nat
      BY <3>3, SMT DEF u
    <3> QED
      BY <2>7, <3>2, <3>4, SMT
  <2>10. CASE n = 3
    <3>1. PICK a \in 0 .. 255, b \in 0 .. 255, c \in 0 .. 255 : a = val[1] /\ b = val[2] /\ c = val[3]
      <4>1. val[1] \in 0 .. 255 /\ val[2] \in 0 .. 255 /\ val[3] \in 0 .. 255
        BY <2>2, <2>10, SMT
      <4> QED
        BY <4>1, Zenon
    <3>2. Number(val) = 65536 * a + 256 * b + c
      BY <1>UintIs, <2>10, <3>1, SMT DEF Number
    <3>3. w = c /\ x = b /\ y = a /\ z = 0
      BY <2>6, <2>10, <3>1, SMT
    <3>4. u = 65536 * a + 256 * b + c /\ 65536 * a + 256 * b + c \in Nat
      BY <3>3, SMT DEF u
    <3> QED
      BY <2>7, <3>2, <3>4, SMT
  <2>11. CASE n = 4
    <3>1. PICK a \in 0 .. 255, b \in 0 .. 255, c \in 0 .. 255, d \in 0 .. 255 :
            a = val[1] /\ b = val[2] /\ c = val[3] /\ d = val[4]
      <4>1. /\ val[1] \in 0 .. 255 /\ val[2] \in 0 .. 255
            /\ val[3] \in 0 .. 255 /\ val[4] \in 0 .. 255
        BY <2>2, <2>11, SMT
      <4> QED
        BY <4>1, Zenon
    <3>2. Number(val) = 16777216 * a + 65536 * b + 256 * c + d
      BY <1>UintIs, <2>11, <3>1, SMT DEF Number
    <3>3. w = d /\ x = c /\ y = b /\ z = a
      BY <2>6, <2>11, <3>1, SMT
    <3>4. /\ u = 16777216 * a + 65536 * b + 256 * c + d
          /\ 16777216 * a + 65536 * b + 256 * c + d \in Nat
      BY <3>3, SMT DEF u
    <3> QED
      BY <2>7, <3>2, <3>4, SMT
  <2> QED
    BY <2>8, <2>9, <2>10, <2>11, SMT
\* decode_fdb reads the descriptor byte as ISO 7816-4 says, bit by bit.
<1>DescriptorByte.
    ASSUME NEW v \in 0 .. 255
    PROVE  MeansType(v, decode_fdb(v))
  <2> DEFINE q == v \div 8
             r == v % 8
  <2>1. q \in 0 .. 31 /\ r \in 0 .. 7 /\ v = 8 * q + r
    BY SMT
  <2>2. decode_fdb(v) = IF v >= 128 THEN "MALFORMED"
                        ELSE IF q % 8 = 7 THEN IF r = 0 THEN "DF" ELSE "MALFORMED"
                        ELSE IF q % 8 = 0 /\ r = 1 THEN "EF"
                        ELSE "UNSUPPORTED"
    BY DEF decode_fdb
  <2> HIDE DEF q, r
  <2>3. v < 128 <=> q < 16
    BY <2>1
  <2>4. q < 16 => /\ q % 8 = 7 <=> q \in {7, 15}
                  /\ q % 8 = 0 <=> q \in {0, 8}
    BY <2>1
  <2> QED
    BY <2>1, <2>2, <2>3, <2>4 DEF MeansType
\* The case of the switch that a tag takes is that of its name.
<1>NameIs.
    ASSUME NEW f, f.kind = "object", NEW tag \in Seq(Octet), tag = f.tag, IsTag(tag),
           NEW n, n = TagNumber(Len(tag), tag[1], tag[2])
    PROVE  TagFits(f, n)
  <2>1. Same(n, tag, 130) /\ Same(n, tag, 131) /\ Same(n, tag, 128) /\ Same(n, tag, 138)
        /\ Same(n, tag, 136)
    <3>1. 130 \in 0 .. 255 /\ 131 \in 0 .. 255 /\ 128 \in 0 .. 255 /\ 138 \in 0 .. 255
          /\ 136 \in 0 .. 255
      BY SMT
    <3> QED
      <4>1. \A x : x \in 0 .. 255 => Same(n, tag, x)
        BY <1>NameIs, TagOfOneByte
      <4> DEFINE P(x) == x \in 0 .. 255
      <4>2. P(130) /\ P(131) /\ P(128) /\ P(138) /\ P(136)
        BY <3>1
      <4>3. \A x : P(x) => Same(n, tag, x)
        BY <4>1
      <4> HIDE DEF P
      <4> QED
        BY <4>2, <4>3, SMT
  <2>2. /\ n = 130 <=> tag = <<130>>
        /\ n = 131 <=> tag = <<131>>
        /\ n = 128 <=> tag = <<128>>
        /\ n = 138 <=> tag = <<138>>
        /\ n = 136 <=> tag = <<136>>
    BY <2>1, SMT DEF Same
  <2>3. Name(f) = CASE tag = <<130>> -> "type"
                    [] tag = <<131>> -> "fid"
                    [] tag = <<128>> -> "size"
                    [] tag = <<138>> -> "lifecycle"
                    [] tag = <<136>> -> "sfi"
                    [] OTHER -> "other"
    BY <1>NameIs DEF Name
  <2>4. /\ tag = <<130>> => n = 130
        /\ tag = <<131>> => n = 131
        /\ tag = <<128>> => n = 128
        /\ tag = <<138>> => n = 138
        /\ tag = <<136>> => n = 136
    BY <2>2
  <2>5. Name(f) = CASE n = 130 -> "type"
                    [] n = 131 -> "fid"
                    [] n = 128 -> "size"
                    [] n = 138 -> "lifecycle"
                    [] n = 136 -> "sfi"
                    [] OTHER -> "other"
    BY <2>2, <2>3, SMT
  <2> QED
    BY <2>5, SMT DEF TagFits, Names, TAG_FILE_DESC, TAG_FILE_ID, TAG_DATA_BYTES, TAG_LIFE_CYCLE, TAG_SFI
\* The cases of the switch over the tag, and what each does to the request.
<1>SwitchOnType.
    ASSUME NEW o, o.tag = TAG_FILE_DESC, NEW v, v = At(body, o.from)
    PROVE  /\ Presentable(o) =>
                object_sw(o) = CASE decode_fdb(v) = "MALFORMED" -> "6A80"
                                 [] decode_fdb(v) = "UNSUPPORTED" -> "6A81"
                                 [] OTHER -> "9000"
           /\ object_req(o) = [req EXCEPT !.type = decode_fdb(v)]
  BY <1>SwitchOnType, SMT DEF object_sw, object_req, TAG_FILE_DESC, TAG_FILE_ID, TAG_DATA_BYTES, TAG_LIFE_CYCLE, TAG_SFI
\* A file identifier: two bytes, none of the reserved ones.
<1>SwitchOnFid.
    ASSUME NEW o, o.tag = TAG_FILE_ID
    PROVE  /\ Presentable(o) => object_sw(o) = "9000"
           /\ object_req(o) = [req EXCEPT !.file_id = 256 * At(body, o.from) + At(body, o.from + 1)]
  BY <1>SwitchOnFid, SMT DEF object_sw, object_req, TAG_FILE_DESC, TAG_FILE_ID, TAG_DATA_BYTES, TAG_LIFE_CYCLE, TAG_SFI
\* A size: at most what an elementary file may have, and not zero.
<1>SwitchOnSize.
    ASSUME NEW o, o.tag = TAG_DATA_BYTES, NEW n, n = tlv_get_uint(body, o)
    PROVE  /\ Presentable(o) =>
                object_sw(o) = IF n > FS_MAX_EF_SIZE THEN "6A84" ELSE IF n = 0 THEN "6A80" ELSE "9000"
           /\ object_req(o) = [req EXCEPT !.size = n]
  BY <1>SwitchOnSize, SMT DEF object_sw, object_req, TAG_FILE_DESC, TAG_FILE_ID, TAG_DATA_BYTES, TAG_LIFE_CYCLE, TAG_SFI
\* A life cycle byte: any but that of a terminated file.
<1>SwitchOnLifecycle.
    ASSUME NEW o, o.tag = TAG_LIFE_CYCLE
    PROVE  LET v == At(body, o.from)
           IN /\ Presentable(o) =>
                   object_sw(o) = IF \E l \in fs_lifecycle \ {"TERMINATED"} : lifecycle_byte[l] = v
                                  THEN "9000" ELSE "6A80"
              /\ object_req(o)
                   = [req EXCEPT !.lifecycle = CHOOSE l \in fs_lifecycle : lifecycle_byte[l] = v]
  BY <1>SwitchOnLifecycle, SMT DEF object_sw, object_req, TAG_FILE_DESC, TAG_FILE_ID, TAG_DATA_BYTES, TAG_LIFE_CYCLE, TAG_SFI
\* A short identifier, in the upper five bits.
<1>SwitchOnSfi.
    ASSUME NEW o, o.tag = TAG_SFI, NEW v, v = At(body, o.from)
    PROVE  /\ Presentable(o) =>
                object_sw(o) = IF v % 8 # 0 \/ v \div 8 > 30 THEN "6A80" ELSE "9000"
           /\ object_req(o) = [req EXCEPT !.sfi = v \div 8]
  BY <1>SwitchOnSfi, SMT DEF object_sw, object_req, TAG_FILE_DESC, TAG_FILE_ID, TAG_DATA_BYTES, TAG_LIFE_CYCLE, TAG_SFI
\* A type.
<1>TypeDecodes.
    ASSUME NEW f, NEW o, NEW val \in Seq(Octet), val = f.value, Name(f) = "type",
           o.tag = TAG_FILE_DESC, o.tag \notin have, ValueAt(o, val)
    PROVE  Decodes(f, o)
  <2>0. PICK n \in Nat : n = Len(val)
    OBVIOUS
  <2> DEFINE S == {x \in {"DF", "EF"} : val \in TypeValues[x]}
             v == val[1]
  <2>1. Says(f) = S
    BY <1>TypeDecodes DEF Says
  <2>2. Fault(f) = IF S # {} THEN "none"
                   ELSE IF n = 1 /\ v \in (0 .. 55) \cup (64 .. 119) THEN "6A81"
                   ELSE "6A80"
    BY <1>TypeDecodes, <2>0, <2>1, SMT DEF Fault
  <2>3. /\ o.to - o.from = n
        /\ n >= 1 => At(body, o.from) = v /\ v \in 0 .. 255
    BY <1>TypeDecodes, <2>0, <1>FirstBytes
  <2> HIDE DEF v
  <2>4. Presentable(o) <=> n = 1
    BY <1>TypeDecodes, <2>3, SMT DEF Presentable, length_ok, Known, Counted, TAG_FILE_DESC, TAG_FILE_ID, TAG_DATA_BYTES
  <2>5. TypeValues["DF"] = {<<56>>, <<120>>} /\ TypeValues["EF"] = {<<1>>, <<65>>}
    BY DEF TypeValues
  <2>6. CASE n # 1
    <3>1. object_sw(o) = "6A80"
      BY <2>4, <2>6 DEF object_sw
    <3>2. S = {}
      <4>1. \A x : val # <<x>>
        BY <2>0, <2>6
      <4> QED
        BY <2>5, <4>1
    <3> HIDE DEF S
    <3>3. Fault(f) = "6A80"
      BY <2>2, <2>6, <3>2
    <3> QED
      BY <2>1, <3>1, <3>2, <3>3 DEF Decodes
  <2>7. CASE n = 1
    <3>0. PICK u \in 0 .. 255 : u = v /\ At(body, o.from) = u
      <4>1. At(body, o.from) = v /\ v \in 0 .. 255
        BY <2>3, <2>7
      <4> QED
        BY <4>1, Zenon
    <3> DEFINE x == decode_fdb(u)
    <3>1. MeansType(u, x)
      BY <1>DescriptorByte
    <3>4. object_sw(o) = CASE x = "MALFORMED" -> "6A80"
                           [] x = "UNSUPPORTED" -> "6A81"
                           [] OTHER -> "9000"
      <4>1. Presentable(o)
        BY <2>4, <2>7
      <4> QED
        BY <1>TypeDecodes, <3>0, <4>1, <1>SwitchOnType
    <3>5. object_req(o) = [req EXCEPT !.type = x]
      BY <1>TypeDecodes, <3>0, <1>SwitchOnType
    <3>2. \A y : (val = <<y>> <=> u = y)
      <4>1. \A y : (val = <<y>> <=> v = y)
        BY <2>0, <2>7, OneByte DEF v
      <4> QED
        BY <3>0, <4>1
    <3> HIDE DEF x
    <3>3. /\ "DF" \in S <=> x = "DF"
          /\ "EF" \in S <=> x = "EF"
          /\ S \subseteq {"DF", "EF"}
      <4>1. "DF" \in S <=> val = <<56>> \/ val = <<120>>
        BY <2>5
      <4>2. "EF" \in S <=> val = <<1>> \/ val = <<65>>
        BY <2>5
      <4>3. "DF" \in S <=> u \in {56, 120}
        BY <3>2, <4>1
      <4>4. "EF" \in S <=> u \in {1, 65}
        BY <3>2, <4>2
      <4> HIDE DEF S
      <4>5. S \subseteq {"DF", "EF"}
        BY DEF S
      <4> QED
        BY <3>1, <4>3, <4>4, <4>5 DEF MeansType
    <3> HIDE DEF S
    <3>6. x \in {"DF", "EF", "UNSUPPORTED", "MALFORMED"}
      BY <3>1 DEF MeansType
    <3>7. CASE x \in {"DF", "EF"}
      <4>1. S = {x}
        BY <3>3, <3>7
      <4>2. object_sw(o) = "9000"
        BY <3>4, <3>7
      <4>3. Fault(f) = "none"
        BY <2>2, <4>1
      <4>4. object_req(o) = With(req, Name(f), x)
        BY <1>TypeDecodes, <3>5 DEF With
      <4> QED
        BY <2>1, <4>1, <4>2, <4>3, <4>4 DEF Decodes
    <3>8. CASE x = "UNSUPPORTED"
      <4>1. S = {}
        BY <3>3, <3>8
      <4>2. u \in (0 .. 55) \cup (64 .. 119)
        BY <3>1, <3>8 DEF MeansType
      <4>3. Fault(f) = "6A81"
        BY <2>2, <2>7, <3>0, <4>1, <4>2, SMT
      <4>4. object_sw(o) = "6A81"
        BY <3>4, <3>8
      <4> QED
        BY <2>1, <4>1, <4>3, <4>4 DEF Decodes
    <3>9. CASE x = "MALFORMED"
      <4>1. S = {}
        BY <3>3, <3>9
      <4>2. u \notin (0 .. 55) \cup (64 .. 119)
        BY <3>1, <3>9 DEF MeansType
      <4>3. Fault(f) = "6A80"
        BY <2>2, <3>0, <4>1, <4>2, SMT
      <4>4. object_sw(o) = "6A80"
        BY <3>4, <3>9
      <4> QED
        BY <2>1, <4>1, <4>3, <4>4 DEF Decodes
    <3> QED
      BY <3>6, <3>7, <3>8, <3>9
  <2> QED
    BY <2>6, <2>7
\* An identifier.
<1>FidDecodes.
    ASSUME NEW f, NEW o, NEW val \in Seq(Octet), val = f.value, Name(f) = "fid",
           o.tag = TAG_FILE_ID, o.tag \notin have, ValueAt(o, val)
    PROVE  Decodes(f, o)
  <2>0. PICK n \in Nat : n = Len(val)
    OBVIOUS
  <2>1. Says(f) = IF n = 2 THEN {Number(val)} ELSE {}
    BY <1>FidDecodes, <2>0, SMT DEF Says
  <2>2. Fault(f) = IF n = 2 THEN "none" ELSE "6A80"
    BY <1>FidDecodes, <2>1, SMT DEF Fault
  <2>3. Presentable(o) <=> n = 2
    <3>1. o.to - o.from = n
      BY <1>FidDecodes, <2>0, <1>FirstBytes
    <3> QED
      BY <1>FidDecodes, <3>1, SMT DEF Presentable, length_ok, Known, Counted, TAG_FILE_DESC, TAG_FILE_ID, TAG_DATA_BYTES
  <2>4. CASE n # 2
    <3>1. object_sw(o) = "6A80"
      BY <2>3, <2>4, SMT DEF object_sw
    <3> QED
      BY <2>1, <2>2, <2>4, <3>1 DEF Decodes
  <2>5. CASE n = 2
    <3>1. object_sw(o) = "9000"
      BY <1>FidDecodes, <2>3, <2>5, <1>SwitchOnFid
    <3>2. At(body, o.from) = val[1] /\ At(body, o.from + 1) = val[2]
      <4>1. n >= 2 => At(body, o.from) = val[1] /\ At(body, o.from + 1) = val[2]
        <5>1. n >= 2 => At(body, o.from + 1) = val[2]
          BY <1>FidDecodes, <2>0, <1>FirstBytes
        <5>2. n >= 1 => At(body, o.from) = val[1]
          BY <1>FidDecodes, <2>0, <1>FirstBytes
        <5> QED
          BY <5>1, <5>2
      <4> QED
        BY <2>5, <4>1
    <3>3. 256 * At(body, o.from) + At(body, o.from + 1) = Number(val)
      BY <2>0, <2>5, <3>2, SMT DEF Number
    <3>4. object_req(o) = [req EXCEPT !.file_id = Number(val)]
      BY <1>FidDecodes, <3>3, <1>SwitchOnFid, SMT
    <3>5. object_req(o) = With(req, Name(f), Number(val))
      BY <1>FidDecodes, <3>4 DEF With
    <3> QED
      BY <2>1, <2>2, <2>5, <3>1, <3>5 DEF Decodes
  <2> QED
    BY <2>4, <2>5
\* A size.
<1>SizeDecodes.
    ASSUME NEW f, NEW o, NEW val \in Seq(Octet), val = f.value, Name(f) = "size",
           o.tag = TAG_DATA_BYTES, o.tag \notin have, ValueAt(o, val)
    PROVE  Decodes(f, o)
  <2>0. PICK n \in Nat : n = Len(val)
    OBVIOUS
  <2> DEFINE m == Number(val)
  <2>1. Says(f) = IF n \in 1 .. 4 /\ m \in 1 .. FS_MAX_EF_SIZE THEN {m} ELSE {}
    BY <1>SizeDecodes, <2>0, SMT DEF Says
  <2>2. Fault(f) = IF n \in 1 .. 4 /\ m \in 1 .. FS_MAX_EF_SIZE THEN "none"
                   ELSE IF n \in 1 .. 4 /\ m > FS_MAX_EF_SIZE THEN "6A84"
                   ELSE "6A80"
    BY <1>SizeDecodes, <2>0, <2>1, SMT DEF Fault
  <2>3. Presentable(o) <=> n \in 1 .. 4
    <3>1. o.to - o.from = n
      BY <1>SizeDecodes, <2>0, <1>FirstBytes
    <3> QED
      BY <1>SizeDecodes, <3>1, SMT DEF Presentable, length_ok, tlv_is_uint, Known, Counted, TAG_FILE_DESC,
                       TAG_FILE_ID, TAG_DATA_BYTES
  <2> HIDE DEF m
  <2>4. CASE n \notin 1 .. 4
    <3>1. object_sw(o) = "6A80"
      BY <2>3, <2>4, SMT DEF object_sw
    <3>2. Fault(f) = "6A80" /\ Says(f) = {}
      BY <2>1, <2>2, <2>4, SMT
    <3> QED
      BY <3>1, <3>2 DEF Decodes
  <2>5. CASE n \in 1 .. 4
    <3>1. tlv_get_uint(body, o) = m /\ m \in Nat
      BY <1>SizeDecodes, <2>0, <2>5, <1>UintIs DEF m
    <3>2. object_sw(o) = IF m > FS_MAX_EF_SIZE THEN "6A84" ELSE IF m = 0 THEN "6A80" ELSE "9000"
      BY <1>SizeDecodes, <2>3, <2>5, <3>1, <1>SwitchOnSize
    <3>3. object_req(o) = [req EXCEPT !.size = m]
      BY <1>SizeDecodes, <3>1, <1>SwitchOnSize
    <3>4. FS_MAX_EF_SIZE \in Nat
      BY SizesAssumption
    <3>5. CASE m \in 1 .. FS_MAX_EF_SIZE
      <4>1. Fault(f) = "none" /\ Says(f) = {m}
        BY <2>1, <2>2, <2>5, <3>5, SMT
      <4>2. object_sw(o) = "9000"
        BY <3>2, <3>4, <3>5
      <4>3. object_req(o) = With(req, Name(f), m)
        BY <1>SizeDecodes, <3>3 DEF With
      <4> QED
        BY <4>1, <4>2, <4>3 DEF Decodes
    <3>6. CASE m > FS_MAX_EF_SIZE
      <4>1. Fault(f) = "6A84" /\ Says(f) = {}
        BY <2>1, <2>2, <2>5, <3>1, <3>4, <3>6, SMT
      <4>2. object_sw(o) = "6A84"
        BY <3>2, <3>6
      <4> QED
        BY <4>1, <4>2 DEF Decodes
    <3>7. CASE m = 0
      <4>1. Fault(f) = "6A80" /\ Says(f) = {}
        BY <2>1, <2>2, <2>5, <3>4, <3>7, SMT
      <4>2. object_sw(o) = "6A80"
        BY <3>2, <3>4, <3>7
      <4> QED
        BY <4>1, <4>2 DEF Decodes
    <3> QED
      BY <3>1, <3>4, <3>5, <3>6, <3>7
  <2> QED
    BY <2>4, <2>5
\* A life cycle state.
<1>LifecycleDecodes.
    ASSUME NEW f, NEW o, NEW val \in Seq(Octet), val = f.value, Name(f) = "lifecycle",
           o.tag = TAG_LIFE_CYCLE, o.tag \notin have, ValueAt(o, val)
    PROVE  Decodes(f, o)
  <2>0. PICK n \in Nat : n = Len(val)
    OBVIOUS
  <2> DEFINE Living == fs_lifecycle \ {"TERMINATED"}
             S == {l \in DOMAIN LifecycleValue : val = LifecycleValue[l]}
  <2>1. Says(f) = S
    BY <1>LifecycleDecodes, SMT DEF Says
  <2>2. Fault(f) = IF S # {} THEN "none" ELSE "6A80"
    BY <1>LifecycleDecodes, <2>1, SMT DEF Fault
  <2>3. Presentable(o) <=> n = 1
    <3>1. o.to - o.from = n
      BY <1>LifecycleDecodes, <2>0, <1>FirstBytes
    <3> QED
      BY <1>LifecycleDecodes, <3>1, SMT DEF Presentable, length_ok, Known, Counted, TAG_FILE_DESC, TAG_FILE_ID,
                       TAG_DATA_BYTES, TAG_LIFE_CYCLE, TAG_SFI
  <2>4. DOMAIN LifecycleValue = Living
    BY DEF LifecycleValue, fs_lifecycle
  <2>5. \A l \in Living : LifecycleValue[l] = <<lifecycle_byte[l]>>
    BY DEF LifecycleValue, fs_lifecycle, lifecycle_byte
  <2>6. S = {l \in Living : val = <<lifecycle_byte[l]>>}
    BY <2>4, <2>5
  <2> HIDE DEF S
  <2>7. CASE n # 1
    <3>1. object_sw(o) = "6A80"
      BY <2>3, <2>7, SMT DEF object_sw
    <3>2. S = {}
      <4>1. \A x : val # <<x>>
        BY <2>0, <2>7
      <4> QED
        BY <2>6, <4>1
    <3>3. Fault(f) = "6A80"
      BY <2>2, <3>2
    <3> QED
      BY <2>1, <3>1, <3>2, <3>3 DEF Decodes
  <2>8. CASE n = 1
    <3> DEFINE v == At(body, o.from)
    <3>0. v = val[1]
      <4>1. n >= 1 => At(body, o.from) = val[1]
        BY <1>LifecycleDecodes, <2>0, <1>FirstBytes
      <4> QED
        BY <2>8, <4>1
    <3>1. \A x : (val = <<x>> <=> v = x)
      <4>1. \A x : (val = <<x>> <=> val[1] = x)
        BY <2>0, <2>8, OneByte
      <4> QED
        BY <3>0, <4>1
    <3>2. S = {l \in Living : lifecycle_byte[l] = v}
      BY <2>6, <3>1
    <3>3. /\ object_sw(o) = IF \E l \in Living : lifecycle_byte[l] = v THEN "9000" ELSE "6A80"
          /\ object_req(o) = [req EXCEPT !.lifecycle = CHOOSE l \in fs_lifecycle : lifecycle_byte[l] = v]
      <4>1. Presentable(o)
        BY <2>3, <2>8
      <4> QED
        BY <1>LifecycleDecodes, <4>1, <1>SwitchOnLifecycle
    <3> HIDE DEF v
    <3>4. CASE S = {}
      <4>1. object_sw(o) = "6A80"
        BY <3>2, <3>3, <3>4
      <4> QED
        BY <2>1, <2>2, <3>4, <4>1 DEF Decodes
    <3>5. CASE S # {}
      <4>1. PICK l \in Living : lifecycle_byte[l] = v
        BY <3>2, <3>5
      <4>2. \A k \in fs_lifecycle : lifecycle_byte[k] = lifecycle_byte[l] => k = l
        BY DEF lifecycle_byte, fs_lifecycle
      <4>3. S = {l}
        BY <3>2, <4>1, <4>2
      <4>4. (CHOOSE k \in fs_lifecycle : lifecycle_byte[k] = v) = l
        BY <4>1, <4>2
      <4>5. object_sw(o) = "9000"
        BY <3>3, <4>1
      <4>6. object_req(o) = With(req, Name(f), l)
        BY <1>LifecycleDecodes, <3>3, <4>4 DEF With
      <4> QED
        BY <2>1, <2>2, <3>5, <4>3, <4>5, <4>6 DEF Decodes
    <3> QED
      BY <3>4, <3>5
  <2> QED
    BY <2>7, <2>8
\* Eight times a number up to 30.
<1>EightFold.
    ASSUME NEW v \in 0 .. 255
    PROVE  LET q == v \div 8
           IN /\ v % 8 # 0 \/ q > 30 => \A k \in 0 .. 30 : v # 8 * k
              /\ ~(v % 8 # 0 \/ q > 30) => /\ q \in 0 .. 30 /\ v = 8 * q
                                           /\ \A k \in 0 .. 30 : v = 8 * k => k = q
  BY <1>EightFold, SMT
\* A short identifier.
<1>SfiDecodes.
    ASSUME NEW f, NEW o, NEW val \in Seq(Octet), val = f.value, Name(f) = "sfi",
           o.tag = TAG_SFI, o.tag \notin have, ValueAt(o, val)
    PROVE  Decodes(f, o)
  <2>0. PICK n \in Nat : n = Len(val)
    OBVIOUS
  <2> DEFINE S == {k \in 0 .. 30 : val = <<8 * k>>}
  <2>1. Says(f) = S
    BY <1>SfiDecodes, SMT DEF Says
  <2>2. Fault(f) = IF S # {} THEN "none" ELSE "6A80"
    BY <1>SfiDecodes, <2>1, SMT DEF Fault
  <2>3. Presentable(o) <=> n = 1
    <3>1. o.to - o.from = n
      BY <1>SfiDecodes, <2>0, <1>FirstBytes
    <3> QED
      BY <1>SfiDecodes, <3>1, SMT DEF Presentable, length_ok, Known, Counted, TAG_FILE_DESC, TAG_FILE_ID,
                       TAG_DATA_BYTES, TAG_LIFE_CYCLE, TAG_SFI
  <2>4. CASE n # 1
    <3>1. object_sw(o) = "6A80"
      BY <2>3, <2>4, SMT DEF object_sw
    <3>2. S = {}
      <4>1. \A x : val # <<x>>
        BY <2>0, <2>4
      <4> QED
        BY <4>1
    <3> HIDE DEF S
    <3>3. Fault(f) = "6A80"
      BY <2>2, <3>2
    <3> QED
      BY <2>1, <3>1, <3>2, <3>3 DEF Decodes
  <2>5. CASE n = 1
    <3>0. PICK v \in 0 .. 255 : v = At(body, o.from) /\ v = val[1]
      <4>1. At(body, o.from) = val[1] /\ val[1] \in 0 .. 255
        <5>1. n >= 1 => At(body, o.from) = val[1] /\ val[1] \in 0 .. 255
          BY <1>SfiDecodes, <2>0, <1>FirstBytes
        <5> QED
          BY <2>5, <5>1
      <4> QED
        BY <4>1, Zenon
    <3>1. \A x : (val = <<x>> <=> v = x)
      <4>1. \A x : (val = <<x>> <=> val[1] = x)
        BY <2>0, <2>5, OneByte
      <4> QED
        BY <3>0, <4>1
    <3>2. S = {k \in 0 .. 30 : v = 8 * k}
      BY <3>1
    <3> HIDE DEF S
    <3>3. /\ object_sw(o) = IF v % 8 # 0 \/ v \div 8 > 30 THEN "6A80" ELSE "9000"
          /\ object_req(o) = [req EXCEPT !.sfi = v \div 8]
      BY <1>SfiDecodes, <2>3, <2>5, <3>0, <1>SwitchOnSfi
    <3> DEFINE q == v \div 8
    <3>4. /\ v % 8 # 0 \/ q > 30 => \A k \in 0 .. 30 : v # 8 * k
          /\ ~(v % 8 # 0 \/ q > 30) => /\ q \in 0 .. 30 /\ v = 8 * q
                                       /\ \A k \in 0 .. 30 : v = 8 * k => k = q
      BY <1>EightFold
    <3>5. CASE v % 8 # 0 \/ q > 30
      <4>1. \A k \in 0 .. 30 : v # 8 * k
        BY <3>4, <3>5
      <4>2. S = {}
        BY <3>2, <4>1, Zenon
      <4>3. object_sw(o) = "6A80"
        BY <3>3, <3>5, SMT
      <4> QED
        BY <2>1, <2>2, <4>2, <4>3, Zenon DEF Decodes
    <3>6. CASE ~(v % 8 # 0 \/ q > 30)
      <4> HIDE DEF q
      <4>1. q \in 0 .. 30 /\ v = 8 * q /\ \A k \in 0 .. 30 : v = 8 * k => k = q
        BY <3>4, <3>6, Zenon DEF q
      <4>2. S = {q}
        BY <3>2, <4>1, Zenon
      <4>3. object_sw(o) = "9000"
        BY <3>3, <3>6, SMT DEF q
      <4>4. Fault(f) = "none"
        BY <2>2, <4>2
      <4>5. object_req(o) = With(req, Name(f), q)
        BY <1>SfiDecodes, <3>3, SMT DEF With, q
      <4> QED
        BY <2>1, <4>2, <4>3, <4>4, <4>5 DEF Decodes
    <3> QED
      BY <3>5, <3>6
  <2> QED
    BY <2>4, <2>5
<1> SUFFICES ASSUME NEW f, IsField(f), f.kind = "object", NEW o, ValueAt(o, f.value),
                    o.tag = TagNumber(Len(f.tag), f.tag[1], f.tag[2])
             PROVE  /\ TagFits(f, o.tag)
                    /\ o.tag \in have => object_sw(o) = "6A80"
                    /\ o.tag \notin have => Decodes(f, o)
  OBVIOUS
<1>1. Encodes(Bytes(f), f.tag, f.form, f.value)
  BY FieldIs
<1>2. f.tag \in Seq(Octet) /\ IsTag(f.tag) /\ f.value \in Seq(Octet)
  BY <1>1 DEF Encodes
<1>3. TagFits(f, o.tag)
  BY <1>2, <1>NameIs
<1>4. o.tag \in have => object_sw(o) = "6A80"
  BY DEF object_sw, Presentable
<1>5. ASSUME o.tag \notin have PROVE Decodes(f, o)
  <2>1. CASE Name(f) = "type"
    BY <1>2, <1>3, <1>5, <2>1, <1>TypeDecodes DEF TagFits
  <2>2. CASE Name(f) = "fid"
    BY <1>2, <1>3, <1>5, <2>2, <1>FidDecodes DEF TagFits
  <2>3. CASE Name(f) = "size"
    BY <1>2, <1>3, <1>5, <2>3, <1>SizeDecodes DEF TagFits
  <2>4. CASE Name(f) = "lifecycle"
    BY <1>2, <1>3, <1>5, <2>4, <1>LifecycleDecodes DEF TagFits
  <2>5. CASE Name(f) = "sfi"
    BY <1>2, <1>3, <1>5, <2>5, <1>SfiDecodes DEF TagFits
  <2>6. CASE Name(f) = "other"
    <3>1. o.tag \notin Known
      BY <1>3, <2>6 DEF TagFits, Known, Counted
    <3>2. object_sw(o) = "6A80"
      BY <3>1 DEF object_sw, Presentable
    <3>3. Says(f) = {}
      BY <2>6 DEF Says
    <3>4. Fault(f) = "6A80"
      BY <2>6, <3>3 DEF Fault
    <3> QED
      BY <3>2, <3>3, <3>4 DEF Decodes
  <2> QED
    BY <1>3, <2>1, <2>2, <2>3, <2>4, <2>5, <2>6 DEF TagFits, Names
<1> QED
  BY <1>3, <1>4, <1>5

-----------------------------------------------------------------------------
(***************************************************************************)
(* Where the parts of a text are in its bytes.                             *)
(***************************************************************************)
(* Where the parts of a text are in its bytes.                             *)
(***************************************************************************)
\* Bytes of which every one is at its place.
LEMMA HeldBytes ==
  ASSUME NEW c \in Seq(Octet), NEW x \in Seq(Octet), NEW p \in Nat, p + Len(x) <= Len(c),
         \A j \in 1 .. Len(x) : c[p + j] = x[j]
  PROVE  Holds(c, p, x)
<1> SUFFICES ASSUME NEW j \in 1 .. Len(x)
             PROVE  At(c, p + j - 1) = x[j]
  BY DEF Holds
<1>1. p + j - 1 < Len(c) /\ p + j - 1 + 1 = p + j
  OBVIOUS
<1> QED
  BY <1>1 DEF At

\* Of two strings in a row, both are there.
LEMMA HeldInRow ==
  ASSUME NEW x \in Seq(Octet), NEW y \in Seq(Octet)
  PROVE  /\ Cat(x, y) \in Seq(Octet) /\ Len(Cat(x, y)) = Len(x) + Len(y)
         /\ Holds(Cat(x, y), 0, x) /\ Holds(Cat(x, y), Len(x), y)
<1> DEFINE c == x \o y
<1>1. /\ c \in Seq(Octet) /\ Len(c) = Len(x) + Len(y)
      /\ \A j \in 1 .. Len(x) : c[j] = x[j]
      /\ \A j \in 1 .. Len(y) : c[Len(x) + j] = y[j]
  BY TwoParts
<1> HIDE DEF c
<1>2. Len(x) \in Nat /\ Len(y) \in Nat
  OBVIOUS
<1>3. Holds(c, 0, x)
  <2>1. 0 + Len(x) <= Len(c) /\ \A j \in 1 .. Len(x) : 0 + j = j
    BY <1>1, <1>2
  <2>2. \A j \in 1 .. Len(x) : c[0 + j] = x[j]
    BY <1>1, <2>1
  <2> QED
    BY <1>1, <2>1, <2>2, HeldBytes
<1>4. Holds(c, Len(x), y)
  <2>1. Len(x) + Len(y) <= Len(c)
    BY <1>1, <1>2
  <2> QED
    BY <1>1, <1>2, <2>1, HeldBytes
<1> QED
  BY <1>1, <1>3, <1>4 DEF Cat, c

\* What is in a part of the bytes is in the bytes.
LEMMA HeldInside ==
  ASSUME NEW b \in Seq(Octet), NEW s \in Seq(Octet), NEW r \in Seq(Octet),
         NEW p \in Nat, NEW q \in Nat, Holds(b, p, s), Holds(s, q, r), q + Len(r) <= Len(s)
  PROVE  Holds(b, p + q, r)
<1> SUFFICES ASSUME NEW j \in 1 .. Len(r)
             PROVE  At(b, p + q + j - 1) = r[j]
  BY DEF Holds
<1>1. /\ q + j \in 1 .. Len(s) /\ p + (q + j) - 1 = p + q + j - 1
      /\ q + j - 1 < Len(s) /\ q + j - 1 + 1 = q + j
  OBVIOUS
<1>2. At(b, p + (q + j) - 1) = s[q + j]
  BY <1>1 DEF Holds
<1>3. At(s, q + j - 1) = r[j]
  BY DEF Holds
<1>4. At(s, q + j - 1) = s[q + j]
  BY <1>1 DEF At
<1> QED
  BY <1>1, <1>2, <1>3, <1>4

\* Where field k + 1 starts, counted from the first field.
Off(t, k) == Len(UpTo(FieldBytes(t), k))

\* The fields of a text, one after the other, and the tail after them.
LEMMA InnerLayout ==
  ASSUME NEW t, IsText(t)
  PROVE  /\ Inner(t) \in Seq(Octet)
         /\ Off(t, 0) = 0 /\ Len(Inner(t)) = Off(t, Count(t)) + Len(t.tail)
         /\ \A k \in 0 .. Count(t) : Off(t, k) \in Nat /\ Off(t, k) <= Off(t, Count(t))
         /\ Holds(Inner(t), Off(t, Count(t)), t.tail)
         /\ \A k \in 1 .. Count(t) :
              /\ Off(t, k) = Off(t, k - 1) + Len(Bytes(t.fields[k]))
              /\ Holds(Inner(t), Off(t, k - 1), Bytes(t.fields[k]))
<1> DEFINE B == FieldBytes(t)
           n == Count(t)
           c == FlattenSeq(B)
           d == Inner(t)
<1>1. /\ n \in Nat /\ B \in Seq(Seq(Octet)) /\ Len(B) = n
      /\ \A i \in 1 .. n : B[i] = Bytes(t.fields[i]) /\ B[i] \in Seq(Octet)
      /\ t.tail \in Seq(Octet)
  <2>1. \A i \in 1 .. n : IsField(t.fields[i])
    BY FieldsAre, Zenon
  <2>2. \A i \in 1 .. n : Bytes(t.fields[i]) \in Seq(Octet)
    BY <2>1, FieldIs, Zenon
  <2> QED
    BY <2>2, FieldsAre, Zenon
<1>2. d = Cat(c, t.tail)
  BY Zenon DEF Inner, Cat, FieldBytes
<1> HIDE DEF B, d
<1>3. /\ \A k \in 0 .. n : UpTo(B, k) \in Seq(Octet)
      /\ UpTo(B, 0) = <<>> /\ UpTo(B, n) = c
  <2>1. /\ \A k \in 0 .. Len(B) : UpTo(B, k) \in Seq(Octet)
        /\ UpTo(B, 0) = <<>> /\ UpTo(B, Len(B)) = c
    BY <1>1, UpToFacts, Zenon
  <2> HIDE DEF n, c
  <2> QED
    BY <1>1, <2>1, Zenon
<1> HIDE DEF n, c
<1>4. c \in Seq(Octet)
  <2>1. n \in 0 .. n
    BY <1>1
  <2> QED
    BY <1>3, <2>1
<1>5. /\ d \in Seq(Octet) /\ Len(d) = Len(c) + Len(t.tail)
      /\ Holds(d, 0, c) /\ Holds(d, Len(c), t.tail)
  BY <1>1, <1>2, <1>4, HeldInRow
<1>6. /\ Off(t, 0) = 0 /\ Off(t, n) = Len(c)
      /\ \A k \in 0 .. n : Off(t, k) = Len(UpTo(B, k)) /\ Off(t, k) \in Nat
  BY <1>1, <1>3 DEF Off, B
<1>7. ASSUME NEW k \in 0 .. n PROVE Off(t, k) <= Off(t, n)
  <2>1. k \in 0 .. Len(B) /\ n \in 0 .. Len(B) /\ k <= n
    BY <1>1
  <2>2. Len(UpTo(B, k)) <= Len(UpTo(B, n))
    BY <1>1, <2>1, UpToPrefix
  <2> QED
    BY <1>3, <1>6, <2>2
<1>8. ASSUME NEW k \in 1 .. n
      PROVE  /\ Off(t, k) = Off(t, k - 1) + Len(Bytes(t.fields[k]))
             /\ Holds(d, Off(t, k - 1), Bytes(t.fields[k]))
  <2> DEFINE x == Bytes(t.fields[k])
             p == Off(t, k - 1)
  <2>1. k - 1 \in 0 .. n /\ k \in 0 .. n /\ k \in 1 .. Len(B)
    BY <1>1
  <2>2. x = B[k] /\ x \in Seq(Octet)
    BY <1>1, Zenon
  <2>3. p \in Nat /\ p = Len(UpTo(B, k - 1)) /\ Off(t, k) = Len(UpTo(B, k))
    BY <1>6, <2>1
  <2>4. /\ Len(UpTo(B, k)) = Len(UpTo(B, k - 1)) + Len(B[k])
        /\ Len(UpTo(B, k)) <= Len(c)
        /\ \A j \in 1 .. Len(B[k]) : c[Len(UpTo(B, k - 1)) + j] = B[k][j]
    BY <1>1, <2>1, FlattenAt DEF c
  <2> HIDE DEF x, p
  <2>5. /\ Off(t, k) = p + Len(x) /\ p + Len(x) <= Len(c)
        /\ \A j \in 1 .. Len(x) : c[p + j] = x[j]
    BY <2>2, <2>3, <2>4, Zenon
  <2>6. Holds(c, p, x)
    BY <1>4, <2>2, <2>3, <2>5, HeldBytes
  <2>7. Holds(d, 0 + p, x)
    BY <1>4, <1>5, <2>2, <2>3, <2>5, <2>6, HeldInside
  <2>8. 0 + p = p
    BY <2>3
  <2> QED
    BY <2>5, <2>7, <2>8 DEF x, p
<1> QED
  BY <1>5, <1>6, <1>7, <1>8 DEF d, n

\* The fields start at Base and the tail ends at Stop; the template is Wrap.
Base(t) == IF t.wrapped THEN Len(t.before) + 2 + t.form ELSE 0
Stop(t) == Base(t) + Len(Inner(t))
Place(t, k) == Base(t) + Off(t, k)
Wrap(t) == Bytes(Object(<<TAG_FCP_TEMPLATE>>, t.form, Inner(t)))

\* The template around a text.
LEMMA WrapLayout ==
  ASSUME NEW t, IsText(t), t.file = {}, t.wrapped
  PROVE  /\ Body(t) \in Seq(Octet) /\ t.before \in Seq(Octet) /\ t.after \in Seq(Octet)
         /\ Encodes(Wrap(t), <<TAG_FCP_TEMPLATE>>, t.form, Inner(t))
         /\ Base(t) \in Nat /\ Len(t.before) + Len(Wrap(t)) = Stop(t)
         /\ Len(Body(t)) = Stop(t) + Len(t.after)
         /\ Holds(Body(t), 0, t.before)
         /\ Holds(Body(t), Len(t.before), Wrap(t))
         /\ Holds(Body(t), Stop(t), t.after)
         /\ Holds(Body(t), Base(t), Inner(t))
<1> DEFINE w == Wrap(t)
           tag == <<TAG_FCP_TEMPLATE>>
           b == Body(t)
           c == Cat(t.before, w)
           x == t.before
           y == t.after
           i == Inner(t)
<1>1. x \in Seq(Octet) /\ y \in Seq(Octet) /\ Fits(t.form, Len(i))
  <2>1. x \in Seq({0, 255}) /\ y \in Seq(Octet) /\ Fits(t.form, Len(i))
    BY DEF IsText
  <2>2. {0, 255} \subseteq Octet
    BY DEF Octet
  <2>3. x \in Seq(Octet)
    <3> HIDE DEF x
    <3>1. x \in Seq({0, 255})
      BY <2>1
    <3> QED
      BY <2>2, <3>1
  <2> QED
    BY <2>1, <2>3
<1>2. i \in Seq(Octet)
  BY InnerLayout
<1>3. tag \in Seq(Octet) /\ IsTag(tag) /\ Len(tag) = 1
  BY DEF IsTag, Octet, TAG_FCP_TEMPLATE
<1>4. Encodes(w, tag, t.form, i)
  <2>1. w = (tag \o LengthField(t.form, Len(i))) \o i
    BY DEF Wrap, Bytes, Object
  <2> HIDE DEF w, tag, i
  <2> QED
    BY <1>1, <1>2, <1>3, <2>1 DEF Encodes
<1> HIDE DEF w, tag, i
<1>5. /\ w \in Seq(Octet) /\ t.form \in 0 .. 2
      /\ Len(w) = 1 + 1 + t.form + Len(i)
      /\ \A j \in 1 .. Len(i) : w[1 + 1 + t.form + j] = i[j]
  <2>1. /\ w \in Seq(Octet) /\ t.form \in 0 .. 2
        /\ Len(w) = Len(tag) + 1 + t.form + Len(i)
        /\ \A j \in 1 .. Len(i) : w[Len(tag) + 1 + t.form + j] = i[j]
    BY <1>4, ObjectBytes
  <2> QED
    BY <1>3, <2>1, Zenon
<1>6. PICK n \in Nat, m \in Nat, form \in 0 .. 2 : n = Len(x) /\ m = Len(i) /\ form = t.form
  BY <1>1, <1>2, <1>5
<1>7. b = Cat(c, y)
  BY DEF Body, Cat, Wrap, w, i
<1>8. /\ c \in Seq(Octet) /\ Len(c) = n + Len(w)
      /\ Holds(c, 0, x) /\ Holds(c, n, w)
  BY <1>1, <1>5, <1>6, HeldInRow
<1> HIDE DEF c, b, y
<1>9. /\ b \in Seq(Octet) /\ Len(b) = Len(c) + Len(y)
      /\ Holds(b, 0, c) /\ Holds(b, Len(c), y)
  BY <1>1, <1>7, <1>8, HeldInRow
<1>10. /\ Base(t) = n + 2 + form /\ Stop(t) = n + 2 + form + m
       /\ Len(w) = 1 + 1 + form + m /\ Len(c) = Stop(t) /\ Base(t) \in Nat
  <2>1. Base(t) = n + 2 + form
    BY <1>6 DEF Base
  <2>2. Stop(t) = n + 2 + form + m
    BY <1>6, <2>1 DEF Stop, i
  <2>3. Len(w) = 1 + 1 + form + m
    BY <1>5, <1>6
  <2> QED
    BY <1>8, <2>1, <2>2, <2>3
<1>11. Holds(b, 0, x)
  <2>1. 0 + Len(x) <= Len(c) /\ 0 + 0 = 0
    BY <1>6, <1>8, <1>10
  <2>2. Holds(b, 0 + 0, x)
    BY <1>1, <1>8, <1>9, <2>1, HeldInside
  <2> QED
    BY <2>1, <2>2
<1>12. Holds(b, n, w)
  <2>1. n + Len(w) <= Len(c) /\ 0 + n = n
    BY <1>8, <1>10
  <2>2. Holds(b, 0 + n, w)
    BY <1>5, <1>8, <1>9, <2>1, HeldInside
  <2> QED
    BY <2>1, <2>2
<1>13. Holds(b, Base(t), i)
  <2> DEFINE q == 1 + 1 + form
  <2>1. q \in Nat /\ q + Len(i) <= Len(w) /\ n + q = Base(t)
    <3>1. q \in Nat /\ q + m <= Len(w) /\ n + q = Base(t)
      BY <1>10
    <3> QED
      BY <1>6, <3>1, Zenon
  <2>2. \A j \in 1 .. Len(i) : w[q + j] = i[j]
    BY <1>5, <1>6
  <2> HIDE DEF q
  <2>3. Holds(w, q, i)
    BY <1>2, <1>5, <2>1, <2>2, HeldBytes
  <2>4. Holds(b, n + q, i)
    BY <1>2, <1>5, <1>9, <1>12, <2>1, <2>3, HeldInside
  <2> QED
    BY <2>1, <2>4
<1>14. Len(x) + Len(w) = Stop(t)
  BY <1>6, <1>8, <1>10
<1>15. Holds(b, Stop(t), y) /\ Len(b) = Stop(t) + Len(y)
  BY <1>9, <1>10
<1>16. Holds(b, Len(x), w)
  BY <1>6, <1>12
<1> QED
  BY <1>1, <1>4, <1>9, <1>10, <1>11, <1>13, <1>14, <1>15, <1>16, Zenon
     DEF b, w, i, y, tag

\* The bytes of a text, in the template or bare.
LEMMA BodyLayout ==
  ASSUME NEW t, IsText(t), t.file = {}
  PROVE  /\ Body(t) \in Seq(Octet) /\ Inner(t) \in Seq(Octet)
         /\ Base(t) \in Nat /\ Stop(t) \in Nat /\ Stop(t) <= Len(Body(t))
         /\ ~t.wrapped => Base(t) = 0 /\ Stop(t) = Len(Body(t))
         /\ Holds(Body(t), Base(t), Inner(t))
<1>1. Inner(t) \in Seq(Octet)
  BY InnerLayout
<1>2. CASE t.wrapped
  <2>1. /\ Body(t) \in Seq(Octet) /\ t.after \in Seq(Octet) /\ Base(t) \in Nat
        /\ Len(Body(t)) = Stop(t) + Len(t.after)
        /\ Holds(Body(t), Base(t), Inner(t))
    BY <1>2, WrapLayout
  <2>2. Stop(t) \in Nat
    BY <1>1, <2>1 DEF Stop
  <2>3. Len(t.after) \in Nat
    BY <2>1
  <2> QED
    BY <1>1, <1>2, <2>1, <2>2, <2>3
<1>3. CASE ~t.wrapped
  <2>1. Body(t) = Inner(t) /\ Base(t) = 0
    BY <1>3 DEF Body, Base
  <2>2. Stop(t) = Len(Inner(t)) /\ Len(Inner(t)) \in Nat
    BY <1>1, <2>1 DEF Stop
  <2>3. Holds(Inner(t), 0, Inner(t))
    <3> DEFINE i == Inner(t)
    <3>1. 0 + Len(i) <= Len(i) /\ \A j \in 1 .. Len(i) : i[0 + j] = i[j]
      BY <2>2
    <3> HIDE DEF i
    <3>2. i \in Seq(Octet)
      BY <1>1 DEF i
    <3>3. Holds(i, 0, i)
      BY <3>1, <3>2, HeldBytes
    <3> QED
      BY <3>3 DEF i
  <2> QED
    BY <1>1, <2>1, <2>2, <2>3
<1> QED
  BY <1>2, <1>3

\* The places of the fields and of the tail.
LEMMA PlacesOfFields ==
  ASSUME NEW t, IsText(t), t.file = {}
  PROVE  /\ \A k \in 0 .. Count(t) : Place(t, k) \in Nat /\ Place(t, k) <= Stop(t)
         /\ Place(t, 0) = Base(t)
         /\ \A k \in 0 .. Count(t) - 1 :
              /\ Place(t, k + 1) = Place(t, k) + Len(Bytes(t.fields[k + 1]))
              /\ Holds(Body(t), Place(t, k), Bytes(t.fields[k + 1]))
         /\ Holds(Body(t), Place(t, Count(t)), t.tail)
         /\ Stop(t) = Place(t, Count(t)) + Len(t.tail)
<1> DEFINE n == Count(t)
           i == Inner(t)
           b == Body(t)
           p == Base(t)
<1>1. /\ n \in Nat /\ i \in Seq(Octet) /\ b \in Seq(Octet) /\ p \in Nat
      /\ Holds(b, p, i) /\ t.tail \in Seq(Octet)
      /\ \A k \in 1 .. n : Bytes(t.fields[k]) \in Seq(Octet)
  <2>1. \A k \in 1 .. n : Bytes(t.fields[k]) \in Seq(Octet)
    BY FieldsAre, FieldIs, Zenon
  <2> QED
    BY <2>1, FieldsAre, BodyLayout, Zenon
<1>2. /\ Off(t, 0) = 0 /\ Len(i) = Off(t, n) + Len(t.tail)
      /\ \A k \in 0 .. n : Off(t, k) \in Nat /\ Off(t, k) <= Off(t, n)
      /\ Holds(i, Off(t, n), t.tail)
      /\ \A k \in 1 .. n : /\ Off(t, k) = Off(t, k - 1) + Len(Bytes(t.fields[k]))
                           /\ Holds(i, Off(t, k - 1), Bytes(t.fields[k]))
  BY InnerLayout, Zenon
<1>3. \A k : Place(t, k) = p + Off(t, k)
  BY DEF Place
<1>4. Stop(t) = p + Len(i)
  BY DEF Stop
<1> HIDE DEF n, i, b, p
<1>5. PICK z \in Nat, l \in Nat : z = Len(t.tail) /\ l = Len(i)
  BY <1>1
<1>6. n \in 0 .. n /\ Off(t, n) \in Nat
  BY <1>1, <1>2
<1>7. l = Off(t, n) + z
  BY <1>2, <1>5
<1>8. ASSUME NEW k \in 0 .. n PROVE Place(t, k) \in Nat /\ Place(t, k) <= Stop(t)
  <2>1. Off(t, k) \in Nat /\ Off(t, k) <= Off(t, n) /\ Place(t, k) = p + Off(t, k)
    BY <1>2, <1>3
  <2>2. Stop(t) = p + l
    BY <1>4, <1>5
  <2> QED
    BY <1>1, <1>6, <1>7, <2>1, <2>2
<1>9. Place(t, 0) = p
  BY <1>1, <1>2, <1>3
<1>10. ASSUME NEW k \in 0 .. n - 1
       PROVE  /\ Place(t, k + 1) = Place(t, k) + Len(Bytes(t.fields[k + 1]))
              /\ Holds(b, Place(t, k), Bytes(t.fields[k + 1]))
  <2> DEFINE x == Bytes(t.fields[k + 1])
  <2>1. k + 1 \in 1 .. n /\ k + 1 - 1 = k /\ k \in 0 .. n /\ k + 1 \in 0 .. n
    BY <1>1
  <2>2. x \in Seq(Octet)
    BY <1>1, <2>1
  <2>3. Off(t, k + 1) = Off(t, k) + Len(x) /\ Holds(i, Off(t, k), x)
    BY <1>2, <2>1
  <2> HIDE DEF x
  <2>4. PICK m \in Nat, q \in Nat, r \in Nat : m = Len(x) /\ q = Off(t, k) /\ r = Off(t, k + 1)
    BY <1>2, <2>1, <2>2
  <2>5. r <= Off(t, n)
    BY <1>2, <2>1, <2>4
  <2>6. q + m <= l /\ r = q + m
    <3>1. r = q + m
      BY <2>3, <2>4
    <3>2. PICK w \in Nat : w = Off(t, n) /\ r <= w /\ l = w + z
      BY <1>6, <1>7, <2>5
    <3> QED
      BY <3>1, <3>2
  <2>7. Holds(b, p + q, x)
    <3>1. Holds(i, q, x) /\ q + Len(x) <= Len(i)
      BY <1>5, <2>3, <2>4, <2>6
    <3> QED
      BY <1>1, <2>2, <3>1, HeldInside
  <2>8. Place(t, k) = p + q /\ Place(t, k + 1) = p + r
    BY <1>3, <2>4
  <2>9. Place(t, k + 1) = Place(t, k) + m
    BY <1>1, <2>6, <2>8
  <2> QED
    BY <2>4, <2>7, <2>8, <2>9 DEF x
<1>11. Holds(b, Place(t, n), t.tail)
  <2> DEFINE q == Off(t, n)
  <2>1. q \in Nat /\ q + Len(t.tail) <= Len(i)
    BY <1>5, <1>6, <1>7
  <2>2. Holds(i, q, t.tail) /\ Place(t, n) = p + q
    BY <1>2, <1>3
  <2> HIDE DEF q
  <2>3. Holds(b, p + q, t.tail)
    BY <1>1, <2>1, <2>2, HeldInside
  <2> QED
    BY <2>2, <2>3
<1>12. Stop(t) = Place(t, n) + Len(t.tail)
  BY <1>1, <1>3, <1>4, <1>5, <1>6, <1>7
<1> QED
  BY <1>8, <1>9, <1>10, <1>11, <1>12 DEF n, b, p

-----------------------------------------------------------------------------
(***************************************************************************)
(* What the parser sees at the place of a field, and after the fields.     *)
(***************************************************************************)
(* What the parser sees at the place of a field, and after the fields.     *)
(***************************************************************************)
\* At the place of a field: padding is passed over, an object is found.
LEMMA AtField ==
  ASSUME NEW t, IsText(t), t.file = {}, NEW k \in 0 .. Count(t) - 1
  PROVE  LET f == t.fields[k + 1]
             p == Place(t, k)
         IN /\ IsField(f) /\ (f.kind = "padding" \/ f.kind = "object")
            /\ f.kind = "padding" => /\ p < Stop(t) /\ IsPadding(At(Body(t), p))
                                     /\ Place(t, k + 1) = p + 1
            /\ f.kind = "object" => /\ Finds(Body(t), p, Stop(t), f.tag, f.value, Bytes(f))
                                    /\ Place(t, k + 1) = p + Len(Bytes(f))
<1> DEFINE f == t.fields[k + 1]
           p == Place(t, k)
           x == Bytes(f)
           b == Body(t)
           e == Stop(t)
           n == Count(t)
<1>1. n \in Nat /\ k + 1 \in 1 .. n /\ k \in 0 .. n /\ k + 1 \in 0 .. n
  <2>1. n \in Nat
    BY FieldsAre
  <2> QED
    BY <2>1
<1>2. /\ IsField(f) /\ x \in Seq(Octet) /\ (f.kind = "padding" \/ f.kind = "object")
      /\ f.kind = "padding" => Len(x) = 1 /\ IsPadding(x[1])
      /\ f.kind = "object" => Encodes(x, f.tag, f.form, f.value)
  <2>1. IsField(f)
    BY <1>1, FieldsAre
  <2> QED
    BY <2>1, FieldIs, Zenon
<1>3. b \in Seq(Octet) /\ e \in Nat
  BY BodyLayout
<1>4. /\ p \in Nat /\ Place(t, k + 1) \in Nat /\ Place(t, k + 1) <= e
      /\ Place(t, k + 1) = p + Len(x)
      /\ Holds(b, p, x)
  BY <1>1, PlacesOfFields
<1> HIDE DEF f, p, x, b, e, n
<1>5. ASSUME f.kind = "padding"
      PROVE  p < e /\ IsPadding(At(b, p)) /\ Place(t, k + 1) = p + 1
  <2>1. Len(x) = 1 /\ IsPadding(x[1])
    BY <1>2, <1>5
  <2>2. Place(t, k + 1) = p + 1 /\ p < e
    BY <1>3, <1>4, <2>1
  <2>3. At(b, p) = x[1]
    <3>1. 1 \in 1 .. Len(x) /\ p + 1 - 1 = p
      BY <1>4, <2>1
    <3> QED
      BY <1>4, <3>1 DEF Holds
  <2> QED
    BY <2>1, <2>2, <2>3
<1>6. ASSUME f.kind = "object"
      PROVE  Finds(b, p, e, f.tag, f.value, x)
  <2>1. Encodes(x, f.tag, f.form, f.value)
    BY <1>2, <1>6
  <2>2. p + Len(x) <= e
    BY <1>4
  <2> QED
    BY <1>2, <1>3, <1>4, <2>1, <2>2, TlvFinds
<1> QED
  BY <1>2, <1>4, <1>5, <1>6, Zenon DEF f, p, x, b, e

\* Where no byte is left tlv_next says so.
LEMMA TlvEnd ==
  ASSUME NEW b, NEW p, NEW e, p >= e
  PROVE  tlv_next(b, p, e).st = "END"
<1>1. tlv_next(b, p, e) = NoObject("END", p)
  BY Zenon DEF tlv_next
<1> QED
  BY <1>1 DEF NoObject

\* After the last field: the end, or bytes in which tlv_next finds no object.
LEMMA AfterFields ==
  ASSUME NEW t, IsText(t), t.file = {}
  PROVE  LET p == Place(t, Count(t))
         IN /\ t.tail = <<>> => p = Stop(t) /\ tlv_next(Body(t), p, Stop(t)).st = "END"
            /\ t.tail # <<>> => /\ p < Stop(t) /\ ~IsPadding(At(Body(t), p))
                                /\ tlv_next(Body(t), p, Stop(t)).st \notin {"OK", "END"}
<1> DEFINE p == Place(t, Count(t))
           b == Body(t)
           e == Stop(t)
           s == t.tail
<1>1. Count(t) \in 0 .. Count(t) /\ s \in Seq(Octet)
  <2>1. Count(t) \in Nat /\ s \in Seq(Octet)
    BY FieldsAre
  <2> QED
    BY <2>1
<1>2. b \in Seq(Octet) /\ e \in Nat /\ e <= Len(b)
  BY BodyLayout
<1>3. p \in Nat /\ Holds(b, p, s) /\ e = p + Len(s)
  BY <1>1, PlacesOfFields
<1>4. s # <<>> => IsBroken(s)
  BY DEF IsText
<1> HIDE DEF p, b, e, s
<1>5. ASSUME s = <<>> PROVE p = e /\ tlv_next(b, p, e).st = "END"
  <2>1. p = e
    BY <1>3, <1>5
  <2>2. p >= e
    BY <1>3, <2>1
  <2> QED
    BY <2>1, <2>2, TlvEnd
<1>6. ASSUME s # <<>>
      PROVE  p < e /\ ~IsPadding(At(b, p)) /\ tlv_next(b, p, e).st \notin {"OK", "END"}
  BY <1>1, <1>2, <1>3, <1>4, <1>6, TlvNothing
<1> QED
  BY <1>5, <1>6 DEF p, b, e, s

-----------------------------------------------------------------------------
(***************************************************************************)
(* The invariant: after k fields, the parser holds what k fields mean.     *)
(***************************************************************************)
(* The invariant: after k fields, the parser holds what k fields mean.     *)
(***************************************************************************)
\* Field i of the text has no fault.
Good(t, i) == ~Repeats(t, i) /\ Fault(t.fields[i]) = "none"

\* The tags that were seen are those of the names among the first k fields.
HaveIs(t, k) ==
  /\ have \subseteq Counted
  /\ TAG_FILE_DESC \in have <=> Places(t, "type", k) # {}
  /\ TAG_FILE_ID \in have <=> Places(t, "fid", k) # {}
  /\ TAG_DATA_BYTES \in have <=> Places(t, "size", k) # {}

\* The first k fields have been read.
ReadUpTo(t, k) ==
  /\ k \in 0 .. Count(t) /\ pos = Place(t, k)
  /\ \A i \in 1 .. k : Good(t, i)
  /\ HaveIs(t, k)
  /\ req = MeantUpTo(t, k)

\* Only padding has been passed.
OuterInv(t) ==
  /\ end = Len(body) /\ have = {} /\ req = NoReq
  /\ t.wrapped => pos \in 0 .. Len(t.before)
  /\ ~t.wrapped => \E k \in 0 .. Count(t) : /\ pos = Place(t, k)
                                            /\ \A i \in 1 .. k : t.fields[i].kind = "padding"

\* The template has been found where it is, and only padding after it.
TrailerInv(t) ==
  /\ t.wrapped
  /\ end = Len(body) /\ have = {} /\ req = NoReq
  /\ inner = [from |-> Base(t), to |-> Stop(t)]
  /\ pos \in Stop(t) .. end
  /\ \A j \in Stop(t) .. pos - 1 : IsPadding(At(body, j))

\* The first fields have been read.
InnerInv(t) ==
  /\ end = Stop(t)
  /\ t.wrapped => Inner(t) # <<>> /\ t.after \in Seq({0, 255})
  /\ \E k \in 0 .. Count(t) : ReadUpTo(t, k)

\* The answer is what the text means.
AnswerInv(t) == sw = MeantSw(t) /\ (sw = "9000" => req = Meant(t))

\* One conjunct for each phase of the parser.
ParseInv(t) ==
  /\ body = Body(t)
  /\ \/ pc = "outer" /\ OuterInv(t)
     \/ pc = "trailer" /\ TrailerInv(t)
     \/ pc = "inner" /\ InnerInv(t)
     \/ pc = "answered" /\ AnswerInv(t)

\* Every step of the parser keeps to the text.
LEMMA ParseStep ==
  \A t : IsText(t) /\ t.file = {} /\ ParseInv(t) /\ FcpInv /\ FcpNext => ParseInv(t)'
\* A byte of padding means nothing.
<1>PaddingMeans.
    ASSUME NEW t, NEW k \in Nat, t.fields[k + 1].kind = "padding"
    PROVE  /\ Good(t, k + 1)
           /\ MeantUpTo(t, k + 1) = MeantUpTo(t, k)
           /\ \A name \in {"type", "fid", "size"} : Places(t, name, k + 1) = Places(t, name, k)
  <2>1. Name(t.fields[k + 1]) = "padding"
    BY <1>PaddingMeans DEF Name
  <2>2. Good(t, k + 1)
    BY <2>1 DEF Good, Repeats, Fault
  <2>3. \A name \in {"type", "fid", "size"} : Places(t, name, k + 1) = Places(t, name, k)
    BY <2>1, PlacesStep
  <2>4. \A name \in {"type", "fid", "size", "lifecycle", "sfi"} : \A d :
          Said(t, name, k + 1, d) = Said(t, name, k, d)
    <3> SUFFICES ASSUME NEW name \in {"type", "fid", "size", "lifecycle", "sfi"}, NEW d
                 PROVE  Said(t, name, k + 1, d) = Said(t, name, k, d)
      BY Zenon
    <3>1. Name(t.fields[k + 1]) # name
      BY <2>1
    <3> QED
      BY <3>1, SaidStep
  <2>5. MeantUpTo(t, k + 1) = MeantUpTo(t, k)
    BY <2>4 DEF MeantUpTo
  <2> QED
    BY <2>2, <2>3, <2>5
\* The first fault of a text.
<1>FirstFault.
    ASSUME NEW t, NEW n \in Nat, DOMAIN t.fields = 1 .. n, NEW k \in 0 .. n,
           \A i \in 1 .. k : Good(t, i)
    PROVE  /\ k = n => Faults(t) = {}
           /\ k < n /\ ~Good(t, k + 1) => Faults(t) # {} /\ Min(Faults(t)) = k + 1
  <2> DEFINE S == Faults(t)
  <2>1. S = {i \in 1 .. n : ~Good(t, i)}
    BY <1>FirstFault DEF Faults, Good
  <2> HIDE DEF S
  <2>2. k = n => S = {}
    BY <1>FirstFault, <2>1
  <2>3. ASSUME k < n, ~Good(t, k + 1) PROVE S # {} /\ Min(S) = k + 1
    <3>1. k + 1 \in S
      BY <2>1, <2>3
    <3>2. S \subseteq k + 1 .. n
      <4> SUFFICES ASSUME NEW i \in 1 .. n, ~Good(t, i) PROVE i \in k + 1 .. n
        BY <2>1
      <4>1. i \notin 1 .. k
        BY <1>FirstFault
      <4> QED
        BY <4>1
    <3>3. \A x \in S : (\A y \in S : x <= y) <=> x = k + 1
      BY <3>1, <3>2
    <3>4. Min(S) = k + 1
      BY <3>1, <3>3 DEF Min
    <3> QED
      BY <3>1, <3>4
  <2> QED
    BY <2>2, <2>3 DEF S
\* A tag that was seen is that of a field that repeats another.
<1>SeenIsRepeated.
    ASSUME NEW t, NEW k \in Nat, HaveIs(t, k), NEW n, TagFits(t.fields[k + 1], n)
    PROVE  n \in have <=> Repeats(t, k + 1)
  <2> DEFINE f == t.fields[k + 1]
  <2>1. k + 1 - 1 = k
    OBVIOUS
  <2>2. Repeats(t, k + 1) <=> /\ Name(f) \in {"type", "fid", "size"}
                              /\ Places(t, Name(f), k) # {}
    BY <2>1 DEF Repeats
  <2> HIDE DEF f
  <2>3. TagFits(f, n)
    BY <1>SeenIsRepeated DEF f
  <2>4. CASE Name(f) = "type"
    BY <1>SeenIsRepeated, <2>2, <2>3, <2>4 DEF TagFits, HaveIs
  <2>5. CASE Name(f) = "fid"
    BY <1>SeenIsRepeated, <2>2, <2>3, <2>5 DEF TagFits, HaveIs
  <2>6. CASE Name(f) = "size"
    BY <1>SeenIsRepeated, <2>2, <2>3, <2>6 DEF TagFits, HaveIs
  <2>7. CASE Name(f) \notin {"type", "fid", "size"}
    <3>1. n \notin Counted
      BY <2>3, <2>7 DEF TagFits, Counted
    <3> QED
      BY <1>SeenIsRepeated, <2>2, <2>7, <3>1 DEF HaveIs
  <2> QED
    BY <2>4, <2>5, <2>6, <2>7
\* The tags seen after one more field.
<1>HaveStep.
    ASSUME NEW t, NEW k \in Nat, HaveIs(t, k), NEW n, TagFits(t.fields[k + 1], n),
           have' = IF n \in Counted THEN have \cup {n} ELSE have
    PROVE  HaveIs(t, k + 1)'
  <2> DEFINE f == t.fields[k + 1]
             P(name) == Places(t, name, k) # {}
             Q(name) == Places(t, name, k + 1) # {}
  <2>1. \A name : Q(name) <=> P(name) \/ Name(f) = name
    <3> SUFFICES ASSUME NEW name PROVE Q(name) <=> P(name) \/ Name(f) = name
      BY Zenon
    <3>1. CASE Name(f) = name
      BY <3>1, PlacesStep
    <3>2. CASE Name(f) # name
      BY <3>2, PlacesStep
    <3> QED
      BY <3>1, <3>2
  <2>2. /\ have \subseteq Counted
        /\ TAG_FILE_DESC \in have <=> P("type")
        /\ TAG_FILE_ID \in have <=> P("fid")
        /\ TAG_DATA_BYTES \in have <=> P("size")
    BY <1>HaveStep DEF HaveIs
  <2>3. TagFits(f, n)
    BY <1>HaveStep
  <2> HIDE DEF f, P, Q
  <2>4. /\ have' \subseteq Counted
        /\ TAG_FILE_DESC \in have' <=> TAG_FILE_DESC \in have \/ n = TAG_FILE_DESC
        /\ TAG_FILE_ID \in have' <=> TAG_FILE_ID \in have \/ n = TAG_FILE_ID
        /\ TAG_DATA_BYTES \in have' <=> TAG_DATA_BYTES \in have \/ n = TAG_DATA_BYTES
    BY <1>HaveStep, <2>2 DEF Counted
  <2>5. /\ n = TAG_FILE_DESC <=> Name(f) = "type"
        /\ n = TAG_FILE_ID <=> Name(f) = "fid"
        /\ n = TAG_DATA_BYTES <=> Name(f) = "size"
    BY <2>3 DEF TagFits
  <2>6. /\ have' \subseteq Counted
        /\ TAG_FILE_DESC \in have' <=> Q("type")
        /\ TAG_FILE_ID \in have' <=> Q("fid")
        /\ TAG_DATA_BYTES \in have' <=> Q("size")
    BY <2>1, <2>2, <2>4, <2>5, Zenon
  <2> QED
    BY <2>6 DEF HaveIs, Q
\* Reading one more byte of padding,
<1>ReadPadding.
    ASSUME NEW t, IsText(t), t.file = {}, NEW k \in 0 .. Count(t) - 1, ReadUpTo(t, k),
           t.fields[k + 1].kind = "padding", pos' = Place(t, k + 1), UNCHANGED <<have, req>>
    PROVE  ReadUpTo(t, k + 1)'
  <2>1. Count(t) \in Nat
    BY <1>ReadPadding, FieldsAre
  <2>2. k \in Nat /\ k + 1 \in 0 .. Count(t)
    BY <2>1
  <2>3. /\ Good(t, k + 1)
        /\ MeantUpTo(t, k + 1) = MeantUpTo(t, k)
        /\ \A name \in {"type", "fid", "size"} : Places(t, name, k + 1) = Places(t, name, k)
    BY <1>ReadPadding, <2>2, <1>PaddingMeans
  <2>4. \A i \in 1 .. k + 1 : Good(t, i)
    BY <1>ReadPadding, <2>2, <2>3 DEF ReadUpTo
  <2>5. HaveIs(t, k + 1)'
    BY <1>ReadPadding, <2>3 DEF ReadUpTo, HaveIs
  <2> QED
    BY <1>ReadPadding, <2>2, <2>3, <2>4, <2>5 DEF ReadUpTo
\* and one more object that has no fault.
<1>ReadObject.
    ASSUME NEW t, IsText(t), t.file = {}, NEW k \in 0 .. Count(t) - 1, ReadUpTo(t, k),
           NEW n, TagFits(t.fields[k + 1], n), Good(t, k + 1),
           NEW w, Says(t.fields[k + 1]) = {w}, pos' = Place(t, k + 1),
           req' = With(req, Name(t.fields[k + 1]), w),
           have' = IF n \in Counted THEN have \cup {n} ELSE have
    PROVE  ReadUpTo(t, k + 1)'
  <2>1. Count(t) \in Nat
    BY <1>ReadObject, FieldsAre
  <2>2. k \in Nat /\ k + 1 \in 0 .. Count(t)
    BY <2>1
  <2>3. HaveIs(t, k + 1)'
    BY <1>ReadObject, <2>2, <1>HaveStep DEF ReadUpTo
  <2>4. \A i \in 1 .. k + 1 : Good(t, i)
    BY <1>ReadObject, <2>2 DEF ReadUpTo
  <2>5. Name(t.fields[k + 1]) \in {"type", "fid", "size", "lifecycle", "sfi"}
    <3>1. Says(t.fields[k + 1]) # {}
      BY <1>ReadObject
    <3> QED
      BY <3>1 DEF Says, TagFits, Names
  <2>6. req' = MeantUpTo(t, k + 1)
    <3>1. req = MeantUpTo(t, k)
      BY <1>ReadObject DEF ReadUpTo
    <3> QED
      BY <1>ReadObject, <2>2, <2>5, <3>1, ObjectMeans
  <2> QED
    BY <1>ReadObject, <2>2, <2>3, <2>4, <2>6 DEF ReadUpTo
\* Nothing is read yet.
<1>ReadNothing.
    ASSUME NEW t, IsText(t), t.file = {}, have' = {}, req' = NoReq, pos' = Base(t)
    PROVE  ReadUpTo(t, 0)'
  <2>1. Count(t) \in Nat
    BY <1>ReadNothing, FieldsAre
  <2>2. Place(t, 0) = Base(t)
    BY <1>ReadNothing, PlacesOfFields
  <2>3. \A name, d : Said(t, name, 0, d) = d /\ Places(t, name, 0) = {}
    <3> SUFFICES ASSUME NEW name, NEW d
                 PROVE  Said(t, name, 0, d) = d /\ Places(t, name, 0) = {}
      BY Zenon
    <3>1. PICK k \in Nat : TRUE
      OBVIOUS
    <3> QED
      BY <1>ReadNothing, <3>1, SaidStep, PlacesStep
  <2>4. MeantUpTo(t, 0) = NoReq
    BY <2>3 DEF MeantUpTo, NoReq
  <2>5. HaveIs(t, 0)'
    BY <1>ReadNothing, <2>3 DEF HaveIs
  <2> QED
    BY <1>ReadNothing, <2>1, <2>2, <2>4, <2>5 DEF ReadUpTo
(* The steps of the parser.                                                *)
(***************************************************************************)
\* Where the parser is at a byte of padding, it is at a field that is one.
<1>PaddingHere.
    ASSUME NEW t, IsText(t), t.file = {}, NEW k \in 0 .. Count(t),
           body = Body(t), pos = Place(t, k), end = Stop(t)
    PROVE  /\ AtPadding => /\ k \in 0 .. Count(t) - 1
                           /\ t.fields[k + 1].kind = "padding" /\ Place(t, k + 1) = pos + 1
           /\ ~AtPadding /\ k # Count(t) =>
                /\ k \in 0 .. Count(t) - 1 /\ IsField(t.fields[k + 1])
                /\ t.fields[k + 1].kind = "object"
  <2>1. Count(t) \in Nat
    BY <1>PaddingHere, FieldsAre
  <2>2. ASSUME AtPadding PROVE k # Count(t)
    <3>1. ~(k = Count(t) /\ t.tail = <<>>)
      BY <1>PaddingHere, <2>2, BodyLayout, AfterFields DEF AtPadding
    <3>2. ~(k = Count(t) /\ t.tail # <<>>)
      BY <1>PaddingHere, <2>2, AfterFields DEF AtPadding
    <3> QED
      BY <3>1, <3>2
  <2>3. k # Count(t) => k \in 0 .. Count(t) - 1
    BY <2>1
  <2>4. ASSUME AtPadding
        PROVE  t.fields[k + 1].kind = "padding" /\ Place(t, k + 1) = pos + 1
    <3>1. k \in 0 .. Count(t) - 1
      BY <2>2, <2>3, <2>4
    <3>2. t.fields[k + 1].kind # "object"
      BY <1>PaddingHere, <2>4, <3>1, AtField DEF AtPadding, Finds
    <3> QED
      BY <1>PaddingHere, <3>1, <3>2, AtField
  <2>5. ASSUME ~AtPadding, k # Count(t)
        PROVE  t.fields[k + 1].kind = "object" /\ IsField(t.fields[k + 1])
    <3>1. k \in 0 .. Count(t) - 1
      BY <2>3, <2>5
    <3>2. t.fields[k + 1].kind # "padding"
      BY <1>PaddingHere, <2>5, <3>1, AtField DEF AtPadding
    <3> QED
      BY <1>PaddingHere, <3>1, <3>2, AtField
  <2> QED
    BY <2>2, <2>3, <2>4, <2>5
\* The padding before the template, and the template after it.
<1>BeforeTemplate.
    ASSUME NEW t, IsText(t), t.file = {}, t.wrapped, NEW p \in 0 .. Len(t.before)
    PROVE  /\ p # Len(t.before) => p < Len(Body(t)) /\ IsPadding(At(Body(t), p))
           /\ Len(t.before) \in Nat
           /\ Finds(Body(t), Len(t.before), Len(Body(t)), <<TAG_FCP_TEMPLATE>>, Inner(t), Wrap(t))
           /\ Len(t.before) + Len(Wrap(t)) = Stop(t)
  <2> DEFINE x == t.before
             b == Body(t)
             w == Wrap(t)
             e == Len(b)
             i == Inner(t)
             tag == <<TAG_FCP_TEMPLATE>>
  <2>1. /\ b \in Seq(Octet) /\ x \in Seq(Octet) /\ t.after \in Seq(Octet)
        /\ Encodes(w, tag, t.form, i)
        /\ Len(x) + Len(w) = Stop(t)
        /\ e = Stop(t) + Len(t.after)
        /\ Holds(b, 0, x) /\ Holds(b, Len(x), w)
    BY <1>BeforeTemplate, WrapLayout
  <2>2. x \in Seq({0, 255})
    BY <1>BeforeTemplate DEF IsText
  <2>3. Stop(t) \in Nat
    BY <1>BeforeTemplate, BodyLayout
  <2> HIDE DEF x, b, w, e, i, tag
  <2>4. w \in Seq(Octet)
    BY <2>1, ObjectBytes
  <2>5. Len(x) \in Nat /\ Len(w) \in Nat /\ Len(t.after) \in Nat
    BY <2>1, <2>4
  <2>6. Len(x) + Len(w) <= e /\ e \in Nat
    BY <2>1, <2>3, <2>5
  <2>7. Finds(b, Len(x), e, tag, i, w)
    BY <2>1, <2>4, <2>5, <2>6, TlvFinds
  <2>8. ASSUME p # Len(x) PROVE p < e /\ IsPadding(At(b, p))
    <3>0. p \in 0 .. Len(x)
      BY DEF x
    <3>1. p + 1 \in 1 .. Len(x) /\ 0 + (p + 1) - 1 = p
      BY <2>5, <2>8, <3>0
    <3>2. At(b, 0 + (p + 1) - 1) = x[p + 1]
      BY <2>1, <3>1 DEF Holds
    <3>3. x[p + 1] \in {0, 255}
      BY <2>2, <3>1
    <3>4. IsPadding(At(b, p))
      BY <3>1, <3>2, <3>3 DEF IsPadding
    <3>5. p < e
      BY <2>5, <2>6, <3>1
    <3> QED
      BY <3>4, <3>5
  <2> QED
    BY <2>1, <2>5, <2>7, <2>8 DEF x, b, w, e, i, tag
\* Skipping a byte of padding.
<1>SkipStep.
    ASSUME NEW t, IsText(t), t.file = {}, ParseInv(t), skip_padding
    PROVE  ParseInv(t)'
  <2>1. /\ body = Body(t) /\ body' = body /\ pc' = pc /\ pc # "answered" /\ AtPadding
        /\ pos' = pos + 1
        /\ UNCHANGED <<end, inner, have, req>>
    BY <1>SkipStep DEF ParseInv, skip_padding
  <2>2. CASE pc = "outer" /\ OuterInv(t) /\ t.wrapped
    <3>1. pos \in 0 .. Len(t.before)
      BY <2>2 DEF OuterInv
    <3>2. pos # Len(t.before)
      BY <1>SkipStep, <2>1, <2>2, <3>1, <1>BeforeTemplate DEF AtPadding, Finds
    <3>3. pos' \in 0 .. Len(t.before)
      <4>1. Len(t.before) \in Nat
        BY <2>2, <3>1, <1>BeforeTemplate
      <4> QED
        BY <2>1, <3>1, <3>2, <4>1
    <3> QED
      BY <2>1, <2>2, <3>3 DEF ParseInv, OuterInv
  <2>3. CASE pc = "outer" /\ OuterInv(t) /\ ~t.wrapped
    <3>1. PICK k \in 0 .. Count(t) : /\ pos = Place(t, k)
                                     /\ \A i \in 1 .. k : t.fields[i].kind = "padding"
      BY <2>3 DEF OuterInv
    <3>2. end = Stop(t)
      BY <1>SkipStep, <2>1, <2>3, BodyLayout DEF OuterInv
    <3>3. /\ k \in 0 .. Count(t) - 1
          /\ t.fields[k + 1].kind = "padding" /\ Place(t, k + 1) = pos + 1
      BY <1>SkipStep, <2>1, <3>1, <3>2, <1>PaddingHere
    <3>4. Count(t) \in Nat
      BY <1>SkipStep, FieldsAre
    <3>5. k + 1 \in 0 .. Count(t) /\ \A i \in 1 .. k + 1 : i \in 1 .. k \/ i = k + 1
      BY <3>3, <3>4
    <3>6. pos' = Place(t, k + 1) /\ \A i \in 1 .. k + 1 : t.fields[i].kind = "padding"
      BY <2>1, <3>1, <3>3, <3>5
    <3>7. OuterInv(t)'
      BY <2>1, <2>3, <3>5, <3>6 DEF OuterInv
    <3> QED
      BY <2>1, <2>3, <3>7 DEF ParseInv
  <2>4. CASE pc = "trailer" /\ TrailerInv(t)
    <3>1. Stop(t) \in Nat /\ end \in Nat
      BY <1>SkipStep, <2>1, <2>4, BodyLayout DEF TrailerInv
    <3>2. pos \in Stop(t) .. end /\ pos < end /\ IsPadding(At(body, pos))
      BY <2>1, <2>4 DEF TrailerInv, AtPadding
    <3>3. pos' \in Stop(t) .. end /\ \A j \in Stop(t) .. pos' - 1 : j \in Stop(t) .. pos - 1 \/ j = pos
      BY <2>1, <3>1, <3>2
    <3>4. \A j \in Stop(t) .. pos' - 1 : IsPadding(At(body, j))
      BY <2>4, <3>2, <3>3 DEF TrailerInv
    <3>5. TrailerInv(t)'
      BY <2>1, <2>4, <3>3, <3>4 DEF TrailerInv
    <3> QED
      BY <2>1, <2>4, <3>5 DEF ParseInv
  <2>5. CASE pc = "inner" /\ InnerInv(t)
    <3>1. PICK k \in 0 .. Count(t) : ReadUpTo(t, k)
      BY <2>5 DEF InnerInv
    <3>2. end = Stop(t) /\ pos = Place(t, k)
      BY <2>5, <3>1 DEF InnerInv, ReadUpTo
    <3>3. /\ k \in 0 .. Count(t) - 1
          /\ t.fields[k + 1].kind = "padding" /\ Place(t, k + 1) = pos + 1
      BY <1>SkipStep, <2>1, <3>2, <1>PaddingHere
    <3>4. Count(t) \in Nat
      BY <1>SkipStep, FieldsAre
    <3>5. k + 1 \in 0 .. Count(t)
      BY <3>3, <3>4
    <3>6. ReadUpTo(t, k + 1)'
      BY <1>SkipStep, <2>1, <3>1, <3>3, <1>ReadPadding
    <3>7. InnerInv(t)'
      BY <2>1, <2>5, <3>5, <3>6 DEF InnerInv
    <3> QED
      BY <2>1, <2>5, <3>7 DEF ParseInv
  <2> QED
    BY <1>SkipStep, <2>1, <2>2, <2>3, <2>4, <2>5 DEF ParseInv
\* Looking for the template.
<1>OuterStep.
    ASSUME NEW t, IsText(t), t.file = {}, ParseInv(t), outer_object
    PROVE  ParseInv(t)'
  <2> DEFINE o == tlv_next(body, pos, end)
  <2>1. /\ body = Body(t) /\ pc = "outer" /\ ~AtPadding /\ OuterInv(t) /\ body' = body
    BY <1>OuterStep DEF ParseInv, outer_object, read_inner
  <2>2. have = {} /\ req = NoReq /\ end = Len(body)
    BY <2>1 DEF OuterInv
  <2>3. CASE t.wrapped
    <3>1. pos \in 0 .. Len(t.before)
      BY <2>1, <2>3 DEF OuterInv
    <3>2. pos = Len(t.before)
      BY <1>OuterStep, <2>1, <2>2, <2>3, <3>1, <1>BeforeTemplate DEF AtPadding
    <3>3. Finds(body, pos, end, <<TAG_FCP_TEMPLATE>>, Inner(t), Wrap(t))
      BY <1>OuterStep, <2>1, <2>2, <2>3, <3>1, <3>2, <1>BeforeTemplate
    <3>4. pos + Len(Wrap(t)) = Stop(t)
      BY <1>OuterStep, <2>3, <3>1, <3>2, <1>BeforeTemplate
    <3>5. o.st = "OK" /\ o.tag = TagNumber(1, TAG_FCP_TEMPLATE, <<TAG_FCP_TEMPLATE>>[2])
          /\ o.to = Stop(t) /\ o.from = o.to - Len(Inner(t))
      BY <3>3, <3>4 DEF Finds
    <3>6. o.tag = TAG_FCP_TEMPLATE
      BY <3>5 DEF TagNumber
    <3>7. Stop(t) \in Nat /\ Stop(t) <= end /\ Base(t) \in Nat /\ Inner(t) \in Seq(Octet)
      BY <1>OuterStep, <2>1, <2>2, BodyLayout
    <3>8. o.from = Base(t)
      BY <3>5, <3>7 DEF Stop
    <3> HIDE DEF o
    <3>9. /\ pc' = "trailer" /\ pos' = Stop(t) /\ inner' = [from |-> Base(t), to |-> Stop(t)]
          /\ UNCHANGED <<body, end, have, req>>
      BY <1>OuterStep, <3>5, <3>6, <3>8 DEF outer_object, o
    <3>10. pos' \in Stop(t) .. end /\ \A j \in Stop(t) .. pos' - 1 : FALSE
      <4>1. end \in Nat
        BY <2>1, <2>2, BodyLayout
      <4> QED
        BY <3>7, <3>9, <4>1
    <3>11. TrailerInv(t)'
      BY <2>2, <2>3, <3>9, <3>10 DEF TrailerInv
    <3> QED
      BY <2>1, <3>9, <3>11 DEF ParseInv
  <2>4. CASE ~t.wrapped
    <3>1. PICK k \in 0 .. Count(t) : /\ pos = Place(t, k)
                                     /\ \A i \in 1 .. k : t.fields[i].kind = "padding"
      BY <2>1, <2>4 DEF OuterInv
    <3>2. end = Stop(t) /\ Base(t) = 0
      BY <1>OuterStep, <2>1, <2>2, <2>4, BodyLayout
    <3>3. ~(o.st = "OK" /\ o.tag = TAG_FCP_TEMPLATE)
      <4>1. CASE k = Count(t)
        <5>1. o.st # "OK"
          BY <1>OuterStep, <2>1, <3>1, <3>2, <4>1, AfterFields
        <5> QED
          BY <5>1
      <4>2. CASE k # Count(t)
        <5> DEFINE f == t.fields[k + 1]
        <5>1. k \in 0 .. Count(t) - 1 /\ IsField(f) /\ f.kind = "object"
          BY <1>OuterStep, <2>1, <3>1, <3>2, <4>2, <1>PaddingHere
        <5>2. f.tag # <<TAG_FCP_TEMPLATE>>
          <6>1. BareStart(t)
            BY <1>OuterStep, <2>4 DEF IsText
          <6>2. k + 1 \in DOMAIN t.fields /\ k + 1 - 1 = k
            BY <1>OuterStep, <5>1, FieldsAre
          <6>3. \A i \in 1 .. k : t.fields[i].kind # "object"
            BY <3>1
          <6> QED
            BY <6>1, <6>2, <6>3 DEF BareStart
        <5>3. Finds(body, pos, end, f.tag, f.value, Bytes(f))
          BY <1>OuterStep, <2>1, <3>1, <3>2, <5>1, AtField
        <5>4. o.tag = TagNumber(Len(f.tag), f.tag[1], f.tag[2])
          BY <5>3 DEF Finds
        <5>5. f.tag \in Seq(Octet) /\ IsTag(f.tag)
          BY <5>1, FieldIs DEF Encodes
        <5>6. TAG_FCP_TEMPLATE \in 0 .. 255
          BY DEF TAG_FCP_TEMPLATE
        <5> HIDE DEF o, f
        <5>7. Same(o.tag, f.tag, TAG_FCP_TEMPLATE)
          BY <5>4, <5>5, <5>6, TagOfOneByte
        <5> QED
          BY <5>2, <5>7 DEF Same
      <4> QED
        BY <4>1, <4>2
    <3> HIDE DEF o
    <3>4. /\ pc' = "inner" /\ pos' = 0 /\ end' = Len(body)
          /\ UNCHANGED <<body, have, req>>
      BY <1>OuterStep, <3>3 DEF outer_object, read_inner, o
    <3>5. ReadUpTo(t, 0)'
      BY <1>OuterStep, <2>2, <3>2, <3>4, <1>ReadNothing
    <3>6. 0 \in 0 .. Count(t)
      BY <1>OuterStep, FieldsAre
    <3>7. InnerInv(t)'
      BY <2>2, <2>4, <3>2, <3>4, <3>5, <3>6 DEF InnerInv
    <3> QED
      BY <2>1, <3>4, <3>7 DEF ParseInv
  <2> QED
    BY <2>3, <2>4
\* A sequence of octets that are all padding, or not.
<1>AllPadding.
    ASSUME NEW s \in Seq(Octet)
    PROVE  s \in Seq({0, 255}) <=> \A j \in 1 .. Len(s) : IsPadding(s[j])
  <2>1. ASSUME s \in Seq({0, 255}) PROVE \A j \in 1 .. Len(s) : IsPadding(s[j])
    BY <2>1 DEF IsPadding
  <2>2. ASSUME \A j \in 1 .. Len(s) : IsPadding(s[j]) PROVE s \in Seq({0, 255})
    <3>1. \A j \in 1 .. Len(s) : s[j] \in {0, 255}
      BY <2>2 DEF IsPadding
    <3>2. PICK n \in Nat : n = Len(s)
      OBVIOUS
    <3>3. s \in [1 .. n -> {0, 255}]
      BY <3>1, <3>2
    <3> QED
      BY <3>3
  <2> QED
    BY <2>1, <2>2
\* After the template.
<1>DoneStep.
    ASSUME NEW t, IsText(t), t.file = {}, ParseInv(t), outer_done
    PROVE  ParseInv(t)'
  <2> DEFINE y == t.after
  <2>1. /\ body = Body(t) /\ pc = "trailer" /\ ~AtPadding /\ TrailerInv(t) /\ body' = body
    BY <1>DoneStep DEF ParseInv, outer_done, answer, read_inner
  <2>2. /\ t.wrapped /\ have = {} /\ req = NoReq /\ end = Len(body)
        /\ inner.from = Base(t) /\ inner.to = Stop(t)
        /\ pos \in Stop(t) .. end
        /\ \A j \in Stop(t) .. pos - 1 : IsPadding(At(body, j))
    BY <2>1 DEF TrailerInv
  <2>3. Base(t) \in Nat /\ Stop(t) \in Nat /\ Inner(t) \in Seq(Octet) /\ Stop(t) = Base(t) + Len(Inner(t))
    BY <1>DoneStep, BodyLayout DEF Stop
  <2>4. y \in Seq(Octet) /\ end = Stop(t) + Len(y) /\ Holds(body, Stop(t), y)
    BY <1>DoneStep, <2>1, <2>2, WrapLayout
  <2> HIDE DEF y
  <2>5. PICK n \in Nat : n = Len(y)
    BY <2>4
  <2>6. \A j \in 1 .. n : At(body, Stop(t) + j - 1) = y[j]
    BY <2>4, <2>5 DEF Holds
  <2>7. y \in Seq({0, 255}) <=> \A j \in 1 .. n : IsPadding(y[j])
    BY <2>4, <2>5, <1>AllPadding
  <2>8. Inner(t) = <<>> <=> Base(t) = Stop(t)
    BY <2>3
  <2>9. ASSUME Inner(t) = <<>> \/ y \notin Seq({0, 255})
        PROVE  MeantSw(t) = "6A80"
    BY <2>2, <2>9 DEF MeantSw, y
  <2>10. CASE pos < end \/ inner.from = inner.to
    <3>1. Inner(t) = <<>> \/ y \notin Seq({0, 255})
      <4>1. CASE pos < end
        <5>1. ~IsPadding(At(body, pos))
          BY <2>1, <4>1 DEF AtPadding
        <5>2. end = Stop(t) + n
          BY <2>4, <2>5
        <5>3. pos - Stop(t) + 1 \in 1 .. n /\ Stop(t) + (pos - Stop(t) + 1) - 1 = pos
          <6>1. PICK p \in Nat, q \in Nat : p = pos /\ q = Stop(t) /\ q <= p /\ p < q + n
            <7>1. Stop(t) + n \in Nat
              BY <2>3, <2>5
            <7>2. pos \in Stop(t) .. end
              BY <2>2
            <7>3. Stop(t) \in Nat
              BY <2>3
            <7> QED
              BY <4>1, <5>2, <7>1, <7>2, <7>3
          <6>2. p - q + 1 \in 1 .. n /\ q + (p - q + 1) - 1 = p
            BY <2>5, <6>1
          <6> QED
            BY <6>1, <6>2
        <5>4. ~IsPadding(y[pos - Stop(t) + 1])
          BY <2>6, <5>1, <5>3
        <5> QED
          BY <2>7, <5>3, <5>4
      <4>2. CASE inner.from = inner.to
        BY <2>2, <2>8, <4>2
      <4> QED
        BY <2>10, <4>1, <4>2
    <3>2. pc' = "answered" /\ sw' = "6A80" /\ body' = body
      BY <1>DoneStep, <2>10 DEF outer_done, answer
    <3>3. AnswerInv(t)'
      BY <2>9, <3>1, <3>2 DEF AnswerInv
    <3> QED
      BY <2>1, <3>2, <3>3 DEF ParseInv
  <2>11. CASE ~(pos < end \/ inner.from = inner.to)
    <3>1. /\ pc' = "inner" /\ end' = Stop(t) /\ pos' = Base(t)
          /\ UNCHANGED <<body, have, req>>
      BY <1>DoneStep, <2>2, <2>11 DEF outer_done, read_inner
    <3>2. Inner(t) # <<>>
      BY <2>2, <2>8, <2>11
    <3>3. y \in Seq({0, 255})
      <4>1. end = Stop(t) + n
        BY <2>4, <2>5
      <4>2. pos = end
        BY <2>2, <2>3, <2>11, <4>1
      <4>3. \A j \in 1 .. n : Stop(t) + j - 1 \in Stop(t) .. pos - 1
        BY <2>3, <4>1, <4>2
      <4>4. \A j \in 1 .. n : IsPadding(y[j])
        BY <2>2, <2>6, <4>3
      <4> QED
        BY <2>7, <4>4
    <3>4. ReadUpTo(t, 0)'
      BY <1>DoneStep, <2>2, <3>1, <1>ReadNothing
    <3>5. 0 \in 0 .. Count(t)
      BY <1>DoneStep, FieldsAre
    <3>6. InnerInv(t)'
      BY <3>1, <3>2, <3>3, <3>4, <3>5 DEF InnerInv, y
    <3> QED
      BY <2>1, <3>1, <3>6 DEF ParseInv
  <2> QED
    BY <2>10, <2>11
\* The verdict on a text that was read to its end.
<1>Verdict.
    ASSUME NEW t, IsText(t), t.file = {}, ReadUpTo(t, Count(t)), RequestInv, t.tail = <<>>
    PROVE  final_sw = IF Complete(t) THEN "9000" ELSE "6A80"
  <2> DEFINE some(name) == Places(t, name, Count(t)) # {}
  <2>1. /\ TAG_FILE_DESC \in have <=> some("type")
        /\ TAG_FILE_ID \in have <=> some("fid")
        /\ TAG_DATA_BYTES \in have <=> some("size")
        /\ req = Meant(t)
    BY <1>Verdict DEF ReadUpTo, HaveIs, Meant, Count
  <2>2. Complete(t) <=>
          /\ some("type") /\ some("fid")
          /\ CASE Meant(t).type = "EF" -> some("size")
               [] Meant(t).type = "DF" -> ~some("size") /\ Meant(t).sfi = FS_NO_SFI
    BY DEF Complete, Count
  <2> HIDE DEF some
  <2>3. some("type") => req.type \in {"DF", "EF"}
    BY <1>Verdict, <2>1 DEF RequestInv
  <2>4. final_sw = IF /\ some("type") /\ some("fid")
                      /\ req.type = "EF" => some("size")
                      /\ req.type = "DF" => ~some("size") /\ req.sfi = FS_NO_SFI
                   THEN "9000" ELSE "6A80"
    BY <2>1 DEF final_sw
  <2>5. CASE ~some("type")
    BY <2>2, <2>4, <2>5
  <2>6. CASE some("type") /\ req.type = "EF"
    BY <2>1, <2>2, <2>4, <2>6
  <2>7. CASE some("type") /\ req.type = "DF"
    BY <2>1, <2>2, <2>4, <2>7
  <2> QED
    BY <2>3, <2>5, <2>6, <2>7
\* An object, the end of the fields, or bytes of which none can be read.
<1>InnerStep.
    ASSUME NEW t, IsText(t), t.file = {}, ParseInv(t), RequestInv, inner_object
    PROVE  ParseInv(t)'
  <2> DEFINE o == tlv_next(body, pos, end)
  <2>1. /\ body = Body(t) /\ pc = "inner" /\ ~AtPadding /\ InnerInv(t) /\ body' = body
    BY <1>InnerStep DEF ParseInv, inner_object, answer
  <2>2. PICK k \in 0 .. Count(t) : ReadUpTo(t, k)
    BY <2>1 DEF InnerInv
  <2>3. end = Stop(t) /\ pos = Place(t, k) /\ \A i \in 1 .. k : Good(t, i)
    BY <2>1, <2>2 DEF InnerInv, ReadUpTo
  <2>4. Count(t) \in Nat /\ DOMAIN t.fields = 1 .. Count(t)
    BY <1>InnerStep, FieldsAre
  <2>5. MeantSw(t) = IF Faults(t) # {}
                     THEN IF Repeats(t, Min(Faults(t))) THEN "6A80" ELSE Fault(t.fields[Min(Faults(t))])
                     ELSE IF t.tail = <<>> /\ Complete(t) THEN "9000"
                     ELSE "6A80"
    BY <2>1 DEF MeantSw, InnerInv
  <2>6. CASE k = Count(t)
    <3>1. Faults(t) = {}
      BY <2>3, <2>4, <2>6, <1>FirstFault
    <3>2. CASE t.tail = <<>>
      <4>1. o.st = "END"
        BY <1>InnerStep, <2>1, <2>3, <2>6, <3>2, AfterFields
      <4> HIDE DEF o
      <4>2. pc' = "answered" /\ sw' = final_sw /\ UNCHANGED <<body, req>>
        BY <1>InnerStep, <4>1 DEF inner_object, answer, o
      <4>3. final_sw = IF Complete(t) THEN "9000" ELSE "6A80"
        BY <1>InnerStep, <2>2, <2>6, <3>2, <1>Verdict
      <4>4. sw' = MeantSw(t)
        BY <2>5, <3>1, <3>2, <4>2, <4>3
      <4>5. req' = Meant(t)
        BY <2>2, <2>6, <4>2 DEF ReadUpTo, Meant, Count
      <4>6. AnswerInv(t)'
        BY <4>4, <4>5 DEF AnswerInv
      <4> QED
        BY <2>1, <4>2, <4>6 DEF ParseInv
    <3>3. CASE t.tail # <<>>
      <4>1. o.st \notin {"OK", "END"}
        BY <1>InnerStep, <2>1, <2>3, <2>6, <3>3, AfterFields
      <4> HIDE DEF o
      <4>2. pc' = "answered" /\ sw' = "6A80" /\ UNCHANGED <<body, req>>
        BY <1>InnerStep, <4>1 DEF inner_object, answer, o
      <4>3. AnswerInv(t)'
        BY <2>5, <3>1, <3>3, <4>2 DEF AnswerInv
      <4> QED
        BY <2>1, <4>2, <4>3 DEF ParseInv
    <3> QED
      BY <3>2, <3>3
  <2>7. CASE k # Count(t)
    <3> DEFINE f == t.fields[k + 1]
    <3>1. k \in 0 .. Count(t) - 1 /\ IsField(f) /\ f.kind = "object"
      BY <1>InnerStep, <2>1, <2>3, <2>7, <1>PaddingHere
    <3>2. Finds(body, pos, end, f.tag, f.value, Bytes(f)) /\ Place(t, k + 1) = pos + Len(Bytes(f))
      BY <1>InnerStep, <2>1, <2>3, <3>1, AtField
    <3>3. /\ o.st = "OK" /\ o.tag = TagNumber(Len(f.tag), f.tag[1], f.tag[2])
          /\ o.to = Place(t, k + 1) /\ ValueAt(o, f.value)
      <4>1. /\ o.st = "OK" /\ o.tag = TagNumber(Len(f.tag), f.tag[1], f.tag[2])
            /\ o.to = Place(t, k + 1)
        BY <3>2 DEF Finds
      <4>2. /\ o.from = o.to - Len(f.value) /\ o.from \in Nat
            /\ \A j \in 1 .. Len(f.value) : At(body, o.from + j - 1) = f.value[j]
        BY <3>2 DEF Finds
      <4>3. Place(t, k + 1) \in Nat /\ Len(f.value) \in Nat
        <5>1. k + 1 \in 0 .. Count(t)
          BY <2>4, <3>1
        <5>2. f.value \in Seq(Octet)
          BY <3>1, FieldIs DEF Encodes
        <5> QED
          BY <1>InnerStep, <5>1, <5>2, PlacesOfFields
      <4> HIDE DEF o, f
      <4>4. o.to = o.from + Len(f.value)
        BY <4>1, <4>2, <4>3
      <4> QED
        BY <4>1, <4>2, <4>4 DEF ValueAt
    <3>4. k \in Nat /\ k < Count(t) /\ k + 1 \in 0 .. Count(t)
      BY <2>4, <3>1
    <3> HIDE DEF o
    <3>5. /\ TagFits(f, o.tag)
          /\ o.tag \in have => object_sw(o) = "6A80"
          /\ o.tag \notin have => Decodes(f, o)
      BY <3>1, <3>3, FieldDecodes
    <3>6. o.tag \in have <=> Repeats(t, k + 1)
      BY <2>2, <3>4, <3>5, <1>SeenIsRepeated DEF ReadUpTo
    <3>7. CASE Good(t, k + 1)
      <4>1. o.tag \notin have /\ Fault(f) = "none"
        BY <3>6, <3>7 DEF Good
      <4>2. PICK w : /\ Says(f) = {w} /\ object_sw(o) = "9000"
                     /\ object_req(o) = With(req, Name(f), w)
        BY <3>5, <4>1 DEF Decodes
      <4>3. /\ pos' = Place(t, k + 1) /\ req' = With(req, Name(f), w)
            /\ have' = IF o.tag \in Counted THEN have \cup {o.tag} ELSE have
            /\ UNCHANGED <<body, pc, end>>
        BY <1>InnerStep, <3>3, <4>2 DEF inner_object, o
      <4>4. ReadUpTo(t, k + 1)'
        BY <1>InnerStep, <2>2, <3>1, <3>5, <3>7, <4>2, <4>3, <1>ReadObject
      <4>5. InnerInv(t)'
        BY <2>1, <3>4, <4>3, <4>4 DEF InnerInv
      <4> QED
        BY <2>1, <4>3, <4>5 DEF ParseInv
    <3>8. CASE ~Good(t, k + 1)
      <4>1. Faults(t) # {} /\ Min(Faults(t)) = k + 1
        BY <2>3, <2>4, <3>4, <3>8, <1>FirstFault
      <4>2. MeantSw(t) = IF Repeats(t, k + 1) THEN "6A80" ELSE Fault(f)
        BY <2>5, <4>1
      <4>3. object_sw(o) = MeantSw(t) /\ MeantSw(t) # "9000"
        <5>1. CASE Repeats(t, k + 1)
          BY <3>5, <3>6, <4>2, <5>1
        <5>2. CASE ~Repeats(t, k + 1)
          <6>1. Fault(f) # "none" /\ Decodes(f, o)
            BY <3>5, <3>6, <3>8, <5>2 DEF Good
          <6>2. object_sw(o) = Fault(f) /\ Fault(f) # "9000"
            BY <6>1 DEF Decodes
          <6> QED
            BY <4>2, <5>2, <6>2
        <5> QED
          BY <5>1, <5>2
      <4>4. pc' = "answered" /\ sw' = object_sw(o) /\ UNCHANGED <<body, req>>
        BY <1>InnerStep, <3>3, <4>3 DEF inner_object, answer, o
      <4>5. AnswerInv(t)'
        BY <4>3, <4>4 DEF AnswerInv
      <4> QED
        BY <2>1, <4>4, <4>5 DEF ParseInv
    <3> QED
      BY <3>7, <3>8
  <2> QED
    BY <2>6, <2>7
<1> SUFFICES ASSUME NEW t, IsText(t), t.file = {}, ParseInv(t), FcpInv, FcpNext
             PROVE  ParseInv(t)'
  OBVIOUS
<1>1. RequestInv
  BY DEF FcpInv
<1>2. CASE skip_padding
  BY <1>2, <1>SkipStep
<1>3. CASE outer_object
  BY <1>3, <1>OuterStep
<1>4. CASE outer_done
  BY <1>4, <1>DoneStep
<1>5. CASE inner_object
  BY <1>1, <1>5, <1>InnerStep
<1> QED
  BY <1>2, <1>3, <1>4, <1>5 DEF FcpNext

\* The text as a list of fields.
AsFields(u) == IF u.file = {} THEN u ELSE Described(CHOOSE d \in u.file : TRUE)

\* The parser is where the text says.
TextInv ==
  \E u \in {text} : IsText(AsFields(u)) /\ AsFields(u).file = {} /\ ParseInv(AsFields(u))

\* The parser is always where the text says.
THEOREM TextInvariant ==
  TextSpec => [](TextInv /\ FcpInv)
(* The theorems.                                                           *)
(***************************************************************************)
\* A text as a list of fields has the same bytes, and only padding is passed
\* when parsing starts.
<1>TextStarts.
    ASSUME TextInit
    PROVE  TextInv /\ FcpInv
  <2>1. PICK u \in Texts : text = u /\ FcpInit(Body(u))
    BY <1>TextStarts DEF TextInit
  <2>2. IsText(u)
    BY <2>1, TextsAssumption
  <2>3. PICK t : t = AsFields(u)
    OBVIOUS
  <2>4. IsText(t) /\ t.file = {} /\ Body(t) = Body(u)
    <3>1. CASE u.file = {}
      BY <2>1, <2>2, <2>3, <3>1 DEF AsFields
    <3>2. CASE u.file # {}
      <4>1. PICK d : d \in u.file /\ d = CHOOSE e \in u.file : TRUE
        BY <3>2
      <4>2. IsFile(d)
        BY <2>2, <4>1, Zenon DEF IsText
      <4>3. t = Described(d)
        BY <2>1, <2>3, <3>2, <4>1, Zenon DEF AsFields
      <4>4. Body(u) = fcp_bytes(d)
        BY <3>2, <4>1, Zenon DEF Body
      <4>5. Describes(t, d)
        BY <4>2, <4>3, FileIsText
      <4> QED
        BY <4>4, <4>5, Zenon DEF Describes
    <3> QED
      BY <3>1, <3>2
  <2>5. Body(t) \in Seq(Octet)
    BY <2>4, BodyLayout
  <2>6. FcpInv
    BY <2>1, <2>4, <2>5, FcpStarts
  <2>7. /\ body = Body(t) /\ pc = "outer" /\ end = Len(body) /\ pos = 0
        /\ have = {} /\ req = NoReq
    BY <2>1, <2>4 DEF FcpInit
  <2>8. t.wrapped => 0 \in 0 .. Len(t.before)
    <3>1. t.wrapped => t.before \in Seq({0, 255})
      BY <2>4, Zenon DEF IsText
    <3>2. \A s \in Seq({0, 255}) : 0 \in 0 .. Len(s)
      OBVIOUS
    <3> QED
      BY <3>1, <3>2, Zenon
  <2>9. ~t.wrapped => /\ 0 = Place(t, 0) /\ 0 \in 0 .. Count(t)
                      /\ \A i \in 1 .. 0 : t.fields[i].kind = "padding"
    <3>1. Place(t, 0) = Base(t) /\ Count(t) \in Nat
      BY <2>4, PlacesOfFields, FieldsAre
    <3>2. ~t.wrapped => Base(t) = 0
      BY DEF Base
    <3> QED
      BY <3>1, <3>2
  <2>10. ParseInv(t)
    <3>1. OuterInv(t)
      BY <2>7, <2>8, <2>9 DEF OuterInv
    <3> QED
      BY <2>7, <3>1 DEF ParseInv
  <2> QED
    BY <2>1, <2>3, <2>4, <2>6, <2>10 DEF TextInv
<1> DEFINE Inv == TextInv /\ FcpInv
           Step == FcpNext /\ UNCHANGED text
<1>1. TextInit => Inv
  BY <1>TextStarts
<1>2. Inv /\ [Step]_textVars => Inv'
  <2> SUFFICES ASSUME Inv, [Step]_textVars PROVE Inv'
    OBVIOUS
  <2>1. FcpInv'
    <3>1. [FcpNext]_fcpVars
      BY DEF textVars
    <3> QED
      BY <3>1, FcpStep
  <2>2. PICK u : u = text /\ IsText(AsFields(u)) /\ AsFields(u).file = {} /\ ParseInv(AsFields(u))
    BY DEF TextInv
  <2> DEFINE t == AsFields(u)
  <2> HIDE DEF t
  <2>3. IsText(t) /\ t.file = {} /\ ParseInv(t) /\ text' = u
    BY <2>2 DEF t, textVars
  <2>4. ParseInv(t)'
    <3>1. CASE FcpNext
      BY <2>3, <3>1, ParseStep
    <3>2. CASE UNCHANGED fcpVars
      BY <2>3, <3>2 DEF fcpVars, ParseInv, OuterInv, TrailerInv, InnerInv, AnswerInv,
                        ReadUpTo, HaveIs
    <3> QED
      BY <3>1, <3>2 DEF textVars
  <2>5. TextInv'
    BY <2>3, <2>4 DEF TextInv, t
  <2> QED
    BY <2>1, <2>5
<1> QED
  BY <1>1, <1>2, PTL DEF TextSpec

\* The parser accepts exactly the texts that are meant to be accepted, with the
\* request they mean, and refuses every other one with the status word of its
\* first fault.
THEOREM ParserDecodesAsMeant == TextSpec => []DecodesAsMeant
<1>1. TextInv => DecodesAsMeant
  <2> SUFFICES ASSUME TextInv, pc = "answered", text.file = {}
               PROVE  sw = MeantSw(text) /\ (sw = "9000" => req = Meant(text))
    BY DEF DecodesAsMeant
  <2>1. ParseInv(text)
    BY DEF TextInv, AsFields
  <2> QED
    BY <2>1 DEF ParseInv, AnswerInv
<1> QED
  BY <1>1, TextInvariant, PTL

\* What SELECT says of a file makes the same file again.
THEOREM DescriptionsRoundTrip == TextSpec => []RoundTrip
<1>1. TextInv /\ (\A d, e \in text.file : IsFile(d) /\ d = e) => RoundTrip
  <2> SUFFICES ASSUME TextInv, \A x, y \in text.file : IsFile(x) /\ x = y, pc = "answered",
                      NEW d \in text.file
               PROVE  /\ Len(body) = fcp_len(d)
                      /\ sw = "9000"
                      /\ \A f \in DOMAIN req : req[f] = d[f]
    BY Zenon DEF RoundTrip
  <2>1. PICK u : u = text /\ ParseInv(AsFields(u))
    BY DEF TextInv
  <2>2. d = CHOOSE e \in text.file : TRUE
    <3>1. (CHOOSE e \in text.file : TRUE) \in text.file
      OBVIOUS
    <3> QED
      BY <3>1, Zenon
  <2>3. PICK t : t = Described(d)
    OBVIOUS
  <2>4. Describes(t, d)
    BY <2>3, FileIsText
  <2>5. body = Body(t) /\ AnswerInv(t)
    <3>1. AsFields(u) = t
      BY <2>1, <2>2, <2>3 DEF AsFields
    <3> QED
      BY <2>1, <3>1 DEF ParseInv
  <2>6. sw = "9000" /\ req = Meant(t)
    BY <2>4, <2>5, Zenon DEF AnswerInv, Describes
  <2> QED
    BY <2>4, <2>5, <2>6, Zenon DEF Describes
<1>2. TextSpec => [](\A d, e \in text.file : IsFile(d) /\ d = e)
  <2> DEFINE J == \A d, e \in text.file : IsFile(d) /\ d = e
  <2>1. TextInit => J
    BY TextsAssumption, Zenon DEF TextInit, IsText
  <2>2. J /\ [FcpNext /\ UNCHANGED text]_textVars => J'
    BY DEF textVars
  <2> HIDE DEF J
  <2>3. TextSpec => []J
    BY <2>1, <2>2, PTL DEF TextSpec
  <2> QED
    BY <2>3 DEF J
<1> QED
  BY <1>1, <1>2, TextInvariant, PTL
=============================================================================
