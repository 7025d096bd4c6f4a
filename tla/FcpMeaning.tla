----------------------------- MODULE FcpMeaning ----------------------------
(***************************************************************************)
(* What an FCP means, independently of how it is parsed: a list of fields, *)
(* each with the value it carries according to the tables of ISO 7816-4,   *)
(* or the refusal it deserves.  A text is such a list, bare or in the      *)
(* template 62, or the answer of SELECT about a file; its bytes are given  *)
(* to the parser of Fcp, and what comes out is compared with what was      *)
(* meant.                                                                  *)
(***************************************************************************)
EXTENDS Fcp, FiniteSetsExt, Concat

CONSTANT Texts   \* the texts that are sent

VARIABLE text
textVars == <<fcpVars, text>>

-----------------------------------------------------------------------------
(***************************************************************************)
(* The bytes of a text.                                                    *)
(***************************************************************************)
\* A field is an object, with its length in one of three forms (0: short, else
\* the number of length bytes), or a byte of padding between objects.
Object(tag, form, value) == [kind |-> "object", tag |-> tag, form |-> form, value |-> value]
Padding(octet) == [kind |-> "padding", tag |-> <<octet>>, form |-> 0, value |-> <<>>]

LengthField(form, n) ==
  CASE form = 0 -> <<n>> [] form = 1 -> <<129, n>> [] form = 2 -> <<130, n \div 256, n % 256>>

Bytes(f) ==
  IF f.kind = "padding" THEN f.tag
  ELSE f.tag \o LengthField(f.form, Len(f.value)) \o f.value

\* The length n can be written in this form.
Fits(form, n) ==
  \/ form = 0 /\ n < 128
  \/ form = 1 /\ n < 256
  \/ form = 2 /\ n < 65536

\* A tag has a second byte if the low five bits of the first are set, and no
\* third; it does not look like padding.
IsTag(s) ==
  \/ Len(s) = 1 /\ s[1] % 32 # 31 /\ s[1] # 0
  \/ Len(s) = 2 /\ s[1] % 32 = 31 /\ s[1] # 255 /\ s[2] < 128

IsField(f) ==
  \/ f \in {Padding(0), Padding(255)}
  \/ /\ f = Object(f.tag, f.form, f.value)
     /\ f.tag \in Seq(Octet) /\ IsTag(f.tag)
     /\ f.value \in Seq(Octet) /\ Fits(f.form, Len(f.value))

\* Bytes of which no object can be read: not padding, and no prefix of them is
\* the encoding of an object.
IsObject(s) ==
  \E k \in 1 .. 2, form \in 0 .. 2 :
    LET f == Object(SubSeq(s, 1, k), form, SubSeq(s, k + form + 2, Len(s)))
    IN k + form + 1 <= Len(s) /\ IsField(f) /\ Bytes(f) = s

IsBroken(s) ==
  s # <<>> /\ ~IsPadding(s[1]) /\ \A n \in 1 .. Len(s) : ~IsObject(SubSeq(s, 1, n))

\* A text is a list of fields and, where it cannot be read to its end, a tail.
Inner(t) == FlattenSeq([i \in DOMAIN t.fields |-> Bytes(t.fields[i])]) \o t.tail

\* It is wrapped in the template, with padding before and anything after it, or
\* bare, or it is what fs_build_fcp says of a file.
Body(t) ==
  IF t.file # {} THEN fcp_bytes(CHOOSE d \in t.file : TRUE)
  ELSE IF t.wrapped
  THEN t.before \o Bytes(Object(<<TAG_FCP_TEMPLATE>>, t.form, Inner(t))) \o t.after
  ELSE Inner(t)

\* A bare text does not begin with the template.
BareStart(t) ==
  \A i \in DOMAIN t.fields :
    t.fields[i].tag = <<TAG_FCP_TEMPLATE>> =>
      \E j \in 1 .. i - 1 : t.fields[j].kind = "object"

\* A file that fs_create_file made; its size is told in two bytes.
IsFile(d) ==
  d \in fs_descriptor /\ ValidReq(d) /\ d.file_id \in Nat /\ d.file_id < 65536 /\ d.size < 65536

IsText(t) ==
  /\ DOMAIN t.fields = 1 .. Len(t.fields) /\ Len(t.fields) \in Nat
  /\ \A i \in DOMAIN t.fields : IsField(t.fields[i])
  /\ t.tail \in Seq(Octet) /\ (t.tail # <<>> => IsBroken(t.tail))
  /\ IF t.wrapped
     THEN t.before \in Seq({0, 255}) /\ t.after \in Seq(Octet) /\ Fits(t.form, Len(Inner(t)))
     ELSE BareStart(t)
  /\ \A d, e \in t.file : IsFile(d) /\ d = e

ASSUME TextsAssumption == \A t \in Texts : IsText(t)

TextInit == \E t \in Texts : text = t /\ FcpInit(Body(t))
TextSpec == TextInit /\ [][FcpNext /\ UNCHANGED text]_textVars
                     /\ WF_textVars(FcpNext /\ UNCHANGED text)

-----------------------------------------------------------------------------
(***************************************************************************)
(* The meaning of a field.                                                 *)
(***************************************************************************)
Name(f) ==
  IF f.kind = "padding" THEN "padding"
  ELSE CASE f.tag = <<130>> -> "type"
         [] f.tag = <<131>> -> "fid"
         [] f.tag = <<128>> -> "size"
         [] f.tag = <<138>> -> "lifecycle"
         [] f.tag = <<136>> -> "sfi"
         [] OTHER -> "other"

\* A number of one to four bytes, most significant first.
Number(v) ==
  CASE Len(v) = 1 -> v[1]
    [] Len(v) = 2 -> 256 * v[1] + v[2]
    [] Len(v) = 3 -> 65536 * v[1] + 256 * v[2] + v[3]
    [] Len(v) = 4 -> 16777216 * v[1] + 65536 * v[2] + 256 * v[3] + v[4]

TypeValues == [DF |-> {<<56>>, <<120>>}, EF |-> {<<1>>, <<65>>}]
LifecycleValue == [CREATION |-> <<1>>, INITIALISED |-> <<3>>, ACTIVATED |-> <<5>>,
                   DEACTIVATED |-> <<4>>]

\* What a field asks for, in a set that is empty if nothing can be made of it.
Says(f) ==
  CASE Name(f) = "type" -> {x \in {"DF", "EF"} : f.value \in TypeValues[x]}
    [] Name(f) = "fid" -> IF Len(f.value) = 2 THEN {Number(f.value)} ELSE {}
    [] Name(f) = "size" ->
         IF Len(f.value) \in 1 .. 4 /\ Number(f.value) \in 1 .. FS_MAX_EF_SIZE
         THEN {Number(f.value)} ELSE {}
    [] Name(f) = "lifecycle" -> {l \in DOMAIN LifecycleValue : f.value = LifecycleValue[l]}
    [] Name(f) = "sfi" -> {n \in 0 .. 30 : f.value = <<8 * n>>}
    [] OTHER -> {}

\* The refusal of a field: of a type that exists and is not supported, of a size
\* that is too large, or of a field that is wrong.
Fault(f) ==
  IF Name(f) = "padding" \/ Says(f) # {} THEN "none"
  ELSE IF /\ Name(f) = "type" /\ Len(f.value) = 1
          /\ f.value[1] \in (0 .. 55) \cup (64 .. 119) THEN "6A81"
  ELSE IF /\ Name(f) = "size" /\ Len(f.value) \in 1 .. 4
          /\ Number(f.value) > FS_MAX_EF_SIZE THEN "6A84"
  ELSE "6A80"

-----------------------------------------------------------------------------
(***************************************************************************)
(* The meaning of a text.                                                  *)
(***************************************************************************)
\* The places of a name among the first k fields.
Places(t, name, k) == {i \in 1 .. k : Name(t.fields[i]) = name}

\* Field i of the text is a second type, identifier or size.
Repeats(t, i) ==
  /\ Name(t.fields[i]) \in {"type", "fid", "size"}
  /\ Places(t, Name(t.fields[i]), i - 1) # {}

\* What the last field under a name says, or a default.
Said(t, name, k, default) ==
  IF Places(t, name, k) = {} THEN default
  ELSE CHOOSE v \in Says(t.fields[Max(Places(t, name, k))]) : TRUE

\* What the first k fields ask for.
MeantUpTo(t, k) ==
  [file_id |-> Said(t, "fid", k, 0), type |-> Said(t, "type", k, "FREE"),
   lifecycle |-> Said(t, "lifecycle", k, "ACTIVATED"), size |-> Said(t, "size", k, 0),
   sfi |-> Said(t, "sfi", k, FS_NO_SFI)]

Meant(t) == MeantUpTo(t, Len(t.fields))

Faults(t) == {i \in DOMAIN t.fields : Repeats(t, i) \/ Fault(t.fields[i]) # "none"}

\* The verdict on a list of fields without a fault.
Complete(t) ==
  LET some(name) == Places(t, name, Len(t.fields)) # {}
  IN /\ some("type") /\ some("fid")
     /\ CASE Meant(t).type = "EF" -> some("size")
          [] Meant(t).type = "DF" -> ~some("size") /\ Meant(t).sfi = FS_NO_SFI

\* The status word: of the first offending field, or of the text as a whole.
MeantSw(t) ==
  LET first == Min(Faults(t))
  IN IF t.wrapped /\ (Inner(t) = <<>> \/ t.after \notin Seq({0, 255})) THEN "6A80"
     ELSE IF Faults(t) # {} THEN IF Repeats(t, first) THEN "6A80" ELSE Fault(t.fields[first])
     ELSE IF t.tail = <<>> /\ Complete(t) THEN "9000"
     ELSE "6A80"

-----------------------------------------------------------------------------
\* The parser accepts exactly what is meant to be accepted, with the meant
\* request, and refuses the rest with the status word of the first fault,
\* wherever padding, long length forms and the template put the bytes.
DecodesAsMeant ==
  pc = "answered" /\ text.file = {} =>
    /\ sw = MeantSw(text)
    /\ sw = "9000" => req = Meant(text)

\* The control information SELECT returns for a file creates the same file
\* again: parse_fcp undoes fs_build_fcp (cmd_create.c: "the inverse of
\* fs_iso_descriptor_byte()", "the same encoding fs_build_fcp emits").
RoundTrip ==
  pc = "answered" =>
    \A d \in text.file : /\ Len(body) = fcp_len(d)
                         /\ sw = "9000"
                         /\ \A f \in DOMAIN req : req[f] = d[f]

\* cmd_create.c: "Every tag we accept appears at most once.  A repeated tag is
\* ambiguous -- first or last wins? -- so it is refused".
EveryTagOnce ==
  sw = "9000" => \A i, j \in DOMAIN text.fields :
                   i # j /\ Name(text.fields[i]) = Name(text.fields[j]) =>
                     Name(text.fields[i]) = "padding"
=============================================================================
