------------------------------- MODULE Schema -------------------------------
(***************************************************************************)
(* The schema registry of PoC/OPApp/.../scripts/bundle.js: the skeleton   *)
(* JSON (line 5) loaded into a protobufjs Root (line 14), and              *)
(* CothorityProtobuf's encodeMessage, decodeMessage and getModel (lines    *)
(* 86-146).                                                                *)
(*                                                                         *)
(* A message is a function from the fields set on it to their values; a   *)
(* repeated field holds a sequence.  The wire is the sequence of          *)
(* [id, val] entries the protobufjs encoder writes: fields in id order,   *)
(* one entry per element of a repeated field, a nested message as the     *)
(* entries of its own encoding, an sint32 zigzag-encoded.  Byte and       *)
(* string contents are model values.                                      *)
(*                                                                         *)
(* protobufjs behaviour the code relies on: lookup returns null for a     *)
(* name the Root does not hold, and create/encode on it throw; the        *)
(* encoder writes a required field without checking that it is set       *)
(* (undefined.length throws for bytes and strings, a nested encoder       *)
(* throws on undefined, and sint32 writes ToInt32(undefined) = 0); the    *)
(* decoder throws when a required field is missing, keeps the last value  *)
(* of a non-repeated field and gives an empty array for a repeated one.   *)
(***************************************************************************)
EXTENDS Integers, Sequences, SequencesExt, Functions

CONSTANTS
  BytesVals,   \* contents of bytes fields
  StringVals,  \* contents of string fields
  Int32Vals,   \* values of sint32 fields
  MaxRepeat,   \* bound on the elements of a repeated field
  Absent       \* a field left unset by the caller

ASSUME MaxRepeat \in Nat
ASSUME Int32Vals \subseteq (-2147483647 - 1)..2147483647

Req(id, ty) == [id |-> id, rule |-> "required", type |-> ty]
Rep(id, ty) == [id |-> id, rule |-> "repeated", type |-> ty]
Opt(id, ty) == [id |-> id, rule |-> "optional", type |-> ty]
NoFields == [f \in {} |-> Req(0, "bytes")]

\* The skeleton: message type -> field -> (id, rule, type).  Nested type
\* references are resolved (onet.Roster, network.ServerIdentity,
\* StatusResponse.Status).
Schema ==
  [CreateContext |-> [serviceid |-> Req(1, "bytes"), signature |-> Req(2, "bytes"),
                      subscriberskeys |-> Rep(3, "bytes"), daganodes |-> Opt(4, "Roster")],
   CreateContextReply |-> [context |-> Req(1, "Context")],
   PKclientCommitments |-> [context |-> Req(1, "Context"), commitments |-> Rep(2, "bytes")],
   PKclientChallenge |-> [cs |-> Req(1, "bytes"), sigs |-> Rep(2, "ServerSignature")],
   ServerSignature |-> [index |-> Req(1, "sint32"), sig |-> Req(2, "bytes")],
   Auth |-> [context |-> Req(1, "Context"), scommits |-> Rep(2, "bytes"),
             t0 |-> Req(3, "bytes"), proof |-> Req(4, "ClientProof")],
   AuthReply |-> [request |-> Req(1, "Auth"), tags |-> Rep(2, "bytes"),
                  proofs |-> Rep(3, "ServerProof"), indexes |-> Rep(4, "sint32"),
                  sigs |-> Rep(5, "ServerSignature")],
   ServerProof |-> [t1 |-> Req(1, "bytes"), t2 |-> Req(2, "bytes"), t3 |-> Req(3, "bytes"),
                    c |-> Req(4, "bytes"), r1 |-> Req(5, "bytes"), r2 |-> Req(6, "bytes")],
   Context |-> [contextid |-> Req(1, "bytes"), serviceid |-> Req(2, "bytes"),
                signatures |-> Rep(3, "bytes"), x |-> Rep(4, "bytes"), y |-> Rep(5, "bytes"),
                r |-> Rep(6, "bytes"), h |-> Rep(7, "bytes"), roster |-> Opt(8, "Roster")],
   ClientProof |-> [cs |-> Req(1, "PKclientChallenge"), t |-> Rep(2, "bytes"),
                    c |-> Rep(3, "bytes"), r |-> Rep(4, "bytes")],
   Roster |-> [id |-> Req(1, "bytes"), list |-> Rep(2, "ServerIdentity"),
               aggregate |-> Req(3, "bytes")],
   ServerIdentity |-> [public |-> Req(1, "bytes"), id |-> Req(2, "bytes"),
                       address |-> Req(3, "string"), description |-> Req(4, "string"),
                       url |-> Opt(5, "string")],
   StatusRequest |-> NoFields,
   StatusResponse |-> [system |-> Opt(1, "Status"), server |-> Opt(2, "ServerIdentity")],
   Status |-> [field |-> Opt(1, "string")]]

\* The names callers pass: every type of the Root, and one it does not hold.
Names == DOMAIN Schema \cup {"Unregistered"}

Fields(t) == DOMAIN Schema[t]
Rule(t, f) == Schema[t][f].rule
Ty(t, f) == Schema[t][f].type
IsMessage(ty) == ty \in DOMAIN Schema
\* The fields of t in id order (the encoder sorts them with compareFieldsById).
ById(t) ==
  LET Rank(f) == Cardinality({g \in Fields(t) : Schema[t][g].id < Schema[t][f].id}) + 1
  IN  [k \in 1..Cardinality(Fields(t)) |-> CHOOSE f \in Fields(t) : Rank(f) = k]
Values(ty) == CASE ty = "bytes" -> BytesVals [] ty = "string" -> StringVals
                [] ty = "sint32" -> Int32Vals

\* getModel(name): this.root.lookup('' + name) finds the type, or null.
Lookup(name) == name \in DOMAIN Schema

\* Defect variant: the sint32 is written as a plain int32.
ZigZagPlain(v) == v

\* Writer.sint32: (value << 1 ^ value >> 31) >>> 0.
ZigZag(v) == IF v >= 0 THEN 2 * v ELSE -2 * v - 1

\* Reader.sint32: (value >>> 1 ^ -(value & 1)) | 0.
UnZigZag(n) == IF n % 2 = 0 THEN n \div 2 ELSE -((n + 1) \div 2)

\* An encoded value: [ok, val]; ok is FALSE when the encoder throws.
RECURSIVE Encode(_, _), EncodeValue(_, _), FieldValues(_, _, _)
EncodeValue(ty, v) ==
  IF IsMessage(ty) THEN LET r == Encode(ty, v) IN [ok |-> r.ok, val |-> r.wire]
  ELSE [ok |-> TRUE, val |-> IF ty = "sint32" THEN ZigZag(v) ELSE v]

\* A required field the caller left unset is written anyway.
MissingRequired(ty) ==
  IF ty = "sint32" THEN [ok |-> TRUE, val |-> ZigZag(0)] ELSE [ok |-> FALSE, val |-> Absent]

\* The values the encoder writes for field f of message m of type t.
FieldValues(t, f, m) ==
  CASE Rule(t, f) = "repeated" ->
         IF f \in DOMAIN m THEN [i \in DOMAIN m[f] |-> EncodeValue(Ty(t, f), m[f][i])] ELSE <<>>
    [] f \in DOMAIN m -> <<EncodeValue(Ty(t, f), m[f])>>
    [] Rule(t, f) = "required" -> <<MissingRequired(Ty(t, f))>>
    [] OTHER -> <<>>

\* Type.encode: the fields in id order.
Encode(t, m) ==
  LET fs    == ById(t)
      parts == [k \in DOMAIN fs |-> FieldValues(t, fs[k], m)]
      ok    == \A k \in DOMAIN parts : \A i \in DOMAIN parts[k] : parts[k][i].ok
      wire  == FlattenSeq([k \in DOMAIN parts |->
                 [i \in DOMAIN parts[k] |-> [id |-> Schema[t][fs[k]].id, val |-> parts[k][i].val]]])
  IN  [ok |-> ok, wire |-> IF ok THEN wire ELSE <<>>]

\* A decoded value, or a decoded message: [ok, val] / [ok, msg].
RECURSIVE Decode(_, _), DecodeValue(_, _)
DecodeValue(ty, v) ==
  IF IsMessage(ty) THEN LET r == Decode(ty, v) IN [ok |-> r.ok, val |-> r.msg]
  ELSE [ok |-> TRUE, val |-> IF ty = "sint32" THEN UnZigZag(v) ELSE v]

\* Type.decode: every entry is read into its field; then a missing
\* required field throws ProtocolError.
Decode(t, w) ==
  LET Read(f) == LET es == SelectSeq(w, LAMBDA e : e.id = Schema[t][f].id)
                 IN  [i \in DOMAIN es |-> DecodeValue(Ty(t, f), es[i].val)]
      set     == {f \in Fields(t) : Rule(t, f) = "repeated" \/ Read(f) # <<>>}
      msg     == [f \in set |-> IF Rule(t, f) = "repeated"
                                  THEN [i \in DOMAIN Read(f) |-> Read(f)[i].val]
                                  ELSE Last(Read(f)).val]
      ok      == /\ \A f \in Fields(t) : \A i \in DOMAIN Read(f) : Read(f)[i].ok
                 /\ \A f \in Fields(t) : Rule(t, f) = "required" => f \in set
  IN  [ok |-> ok, msg |-> IF ok THEN msg ELSE <<>>]

\* encodeMessage(name, fields): getModel, model.create(fields),
\* model.encode(msg).finish().  create on a null model throws.
EncodeMessage(name, m) ==
  IF Lookup(name) THEN Encode(name, m) ELSE [ok |-> FALSE, wire |-> <<>>]

\* decodeMessage(name, buffer): getModel, model.decode(buffer).
DecodeMessage(name, w) ==
  IF Lookup(name) THEN Decode(name, w) ELSE [ok |-> FALSE, msg |-> <<>>]

-----------------------------------------------------------------------------
(* The fields objects callers build: every field unset or set to one of    *)
(* its values, a nested message being a minimal well-formed one or the     *)
(* same without its first required field.                                  *)

RECURSIVE Minimal(_)
Minimal(t) ==
  [f \in {g \in Fields(t) : Rule(t, g) # "optional"} |->
     IF Rule(t, f) = "repeated" THEN <<>>
     ELSE IF IsMessage(Ty(t, f)) THEN Minimal(Ty(t, f))
     ELSE CHOOSE v \in Values(Ty(t, f)) : TRUE]

FirstRequired(t) == SelectInSeq(ById(t), LAMBDA f : Rule(t, f) = "required")

Sample(t) ==
  {Minimal(t)} \cup
    IF FirstRequired(t) = 0 THEN {}
    ELSE {Restrict(Minimal(t), DOMAIN Minimal(t) \ {ById(t)[FirstRequired(t)]})}

FieldChoices(t, f) ==
  LET one == IF IsMessage(Ty(t, f)) THEN Sample(Ty(t, f)) ELSE Values(Ty(t, f))
  IN  IF Rule(t, f) = "repeated" THEN BoundedSeq(one, MaxRepeat) ELSE one \cup {Absent}

RECURSIVE Combos(_, _)
Combos(t, fs) ==
  IF fs = <<>> THEN {<<>>}
  ELSE {IF v = Absent THEN c ELSE (Head(fs) :> v) @@ c :
          c \in Combos(t, Tail(fs)), v \in FieldChoices(t, Head(fs))}

Inputs(name) == IF Lookup(name) THEN Combos(name, ById(name)) ELSE {<<>>}

\* All required fields set, repeated fields given as arrays, values of
\* their types, nested messages well-formed.
RECURSIVE WellFormed(_, _)
WellFormed(t, m) ==
  /\ DOMAIN m \subseteq Fields(t)
  /\ \A f \in Fields(t) : Rule(t, f) # "optional" => f \in DOMAIN m
  /\ \A f \in DOMAIN m :
       \A v \in (IF Rule(t, f) = "repeated" THEN ToSet(m[f]) ELSE {m[f]}) :
         IF IsMessage(Ty(t, f)) THEN WellFormed(Ty(t, f), v) ELSE v \in Values(Ty(t, f))

-----------------------------------------------------------------------------
(* One message's trip: the sender's encodeMessage, then the receiver's    *)
(* decodeMessage of the bytes under the same name.                        *)

VARIABLES
  name,     \* the type name passed to encodeMessage and decodeMessage
  fields,   \* the fields object passed to encodeMessage
  buffer,   \* the encoded bytes
  decoded,  \* what decodeMessage returned
  phase     \* "built", "encoded", "decoded" or "threw"

vars == <<name, fields, buffer, decoded, phase>>

Init ==
  /\ name \in Names
  /\ fields \in Inputs(name)
  /\ buffer = <<>>
  /\ decoded = <<>>
  /\ phase = "built"

\* encodeMessage(name, fields) returns the bytes, or throws.
Send ==
  /\ phase = "built"
  /\ LET r == EncodeMessage(name, fields)
     IN  /\ buffer' = r.wire
         /\ phase' = IF r.ok THEN "encoded" ELSE "threw"
  /\ UNCHANGED <<name, fields, decoded>>

\* decodeMessage(name, buffer) returns the message, or throws.
Receive ==
  /\ phase = "encoded"
  /\ LET r == DecodeMessage(name, buffer)
     IN  /\ decoded' = r.msg
         /\ phase' = IF r.ok THEN "decoded" ELSE "threw"
  /\ UNCHANGED <<name, fields, buffer>>

Next == Send \/ Receive

Spec == Init /\ [][Next]_vars

-----------------------------------------------------------------------------

\* The entries of a wire of type t: known ids, values of the field's wire
\* type (an sint32 as its unsigned zigzag form), nested wires well-typed.
RECURSIVE WireOK(_, _)
WireOK(t, w) ==
  \A i \in DOMAIN w :
    \E f \in Fields(t) :
      /\ w[i].id = Schema[t][f].id
      /\ CASE IsMessage(Ty(t, f)) -> WireOK(Ty(t, f), w[i].val)
           [] Ty(t, f) = "sint32" -> w[i].val \in Nat
           [] OTHER -> w[i].val \in Values(Ty(t, f))

TypeOK ==
  /\ name \in Names
  /\ phase \in {"built", "encoded", "decoded", "threw"}
  /\ phase \in {"encoded", "decoded"} => WireOK(name, buffer)

\* encodeMessage rejects a fields object that leaves a required field
\* unset: nothing is put on the wire for it (bundle.js 109-118).
EncodeRejectsMalformed ==
  phase \in {"encoded", "decoded"} => WellFormed(name, fields)

=============================================================================
