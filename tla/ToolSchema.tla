------------------------------ MODULE ToolSchema ------------------------------
(***************************************************************************)
(* The arguments of a tool call are made to fit the schema the client gave *)
(* for the tool (src/exo/worker/runner/llm_inference/tool_parsers.py): a   *)
(* model writes "5" where the schema says integer.                         *)
(*                                                                         *)
(* A JSON value has its type t, what a string reads as (of: an int, a      *)
(* float, a float that is not finite, a Boolean, other JSON, or a word),   *)
(* and its content: the one member of an object or an array, or the value  *)
(* a string holds as JSON.  A schema has its types (one, a list of them,   *)
(* or none that is a string) and the schema of the content, if it has one. *)
(***************************************************************************)
EXTENDS Integers, Sequences, SequencesExt

CONSTANTS
  Types,         \* the types to combine in lists (bound)
  InnerTypes     \* the types of a member (bound)

VARIABLES value, schema, coerced

tsvars == <<value, schema, coerced>>

V(t, of, in) == [t |-> t, of |-> of, in |-> in]
Schema(ty, sub) == [ty |-> ty, sub |-> sub]

(* _json_type_matches                                                      *)
TypeMatches(v, ty) ==
  CASE ty = "number" -> v.t \in {"integer", "number"}
    [] OTHER -> v.t = ty

(* float.is_integer, int(str), float(str) and math.isfinite, str.lower.    *)
AsInteger(v) ==
  IF <<v.t, v.of>> \in {<<"number", "whole">>, <<"string", "int">>}
  THEN V("integer", "", << >>) ELSE v
AsNumber(v) ==
  CASE v.t = "string" /\ v.of = "int" -> V("number", "whole", << >>)
    [] v.t = "string" /\ v.of = "float" -> V("number", "", << >>)
    [] OTHER -> v
AsBoolean(v) ==
  IF v.t = "string" /\ v.of = "bool" THEN V("boolean", "", << >>) ELSE v

(* A string that is JSON of the type, read.                                *)
AsJson(v, ty) ==
  IF v.t = "string" /\ v.of = "json" /\ v.in[1].t = ty THEN v.in[1] ELSE v

RECURSIVE Coerce(_, _)

\* A seeded fault: the first type of the list that changes the value wins.
FirstChange(v, s) ==
  LET fits == SelectSeq(s.ty, LAMBDA ty : Coerce(v, [s EXCEPT !.ty = <<ty>>]) # v)
  IN  IF fits = << >> THEN v ELSE Coerce(v, [s EXCEPT !.ty = <<fits[1]>>])

(* The first type of a list that the value can be made to have.            *)
FirstFit(v, s) ==
  LET fits == SelectSeq(s.ty, LAMBDA ty :
                TypeMatches(Coerce(v, [s EXCEPT !.ty = <<ty>>]), ty))
  IN  IF fits = << >> THEN v ELSE Coerce(v, [s EXCEPT !.ty = <<fits[1]>>])

\* A seeded fault: a member is coerced even when its object is not one.
IntoAnything(v, s) ==
  LET w == AsJson(v, s.ty[1])
  IN  IF s.sub = << >> THEN w
      ELSE [w EXCEPT !.in = [i \in DOMAIN @ |-> Coerce(@[i], s.sub[1])]]

(* An object or an array: its content by the schema of the content.        *)
IntoContent(v, s) ==
  LET w == AsJson(v, s.ty[1])
  IN  IF w.t # s.ty[1] \/ s.sub = << >> THEN w
      ELSE [w EXCEPT !.in = [i \in DOMAIN @ |-> Coerce(@[i], s.sub[1])]]

(* _coerce_tool_arg_with_schema                                            *)
Coerce(v, s) ==
  CASE Len(s.ty) = 0 -> v
    [] Len(s.ty) > 1 -> FirstFit(v, s)
    [] s.ty = <<"object">> \/ s.ty = <<"array">> -> IntoContent(v, s)
    [] s.ty = <<"integer">> -> AsInteger(v)
    [] s.ty = <<"number">> -> AsNumber(v)
    [] s.ty = <<"boolean">> -> AsBoolean(v)
    [] OTHER -> v

(* _coerce_tool_calls_to_schema: the arguments, a JSON object in a string, *)
(* are read, coerced and written again; anything else is left as it is.    *)
CoerceCall(args, s) ==
  IF args.of = "json" /\ args.in[1].t = "object"
  THEN LET c == Coerce(args.in[1], s)
       IN  IF c.t = "object" THEN [args EXCEPT !.in = <<c>>] ELSE args
  ELSE args

-----------------------------------------------------------------------------
Scalars ==
  {V("null", "", << >>), V("boolean", "", << >>), V("integer", "", << >>),
   V("number", "", << >>), V("number", "whole", << >>)}
  \cup {V("string", of, << >>) : of \in {"int", "float", "infinite", "bool", "word"}}
Contained == {V(t, "", <<v>>) : t \in {"object", "array"}, v \in Scalars}
Values == Scalars \cup Contained \cup {V("string", "json", <<v>>) : v \in Contained}
          \cup {V("object", "", <<v>>) : v \in Contained}

Inner == {<< >>} \cup {<<Schema(<<ty>>, << >>)>> : ty \in InnerTypes}
Schemas == {Schema(ty, sub) : ty \in {<< >>} \cup {<<t>> : t \in Types}
                                     \cup {<<t, u>> : t, u \in Types}, sub \in Inner}

SchemaInit == value \in Values /\ schema = Schema(<< >>, << >>) /\ coerced = value

CoerceArgument ==
  /\ coerced = value /\ schema.ty = << >>
  /\ \E s \in Schemas : schema' = s /\ coerced' = Coerce(value, s)
  /\ UNCHANGED value

CoerceCallArguments ==
  /\ coerced = value /\ schema.ty = << >> /\ value.t = "string"
  /\ \E s \in Schemas : schema' = s /\ coerced' = CoerceCall(value, s)
  /\ UNCHANGED value

SchemaNext == CoerceArgument \/ CoerceCallArguments

-----------------------------------------------------------------------------
(* Coercing twice is coercing once: a call that is parsed, stored and sent *)
(* through the schema again keeps its arguments.                           *)
CoercedOnce ==
  schema.ty # << >> => LET c == Coerce(value, schema) IN Coerce(c, schema) = c

Fits(v, s) ==
  /\ TypeMatches(v, s.ty[1])
  /\ s.ty[1] \in {"object", "array"} /\ s.sub # << >> =>
       TypeMatches(v.in[1], s.sub[1].ty[1])

(* An argument that has the one type its schema names is left alone, and   *)
(* coercion gives either the type asked for or the value it got.  (With a  *)
(* list of types it may change a value that fits: a string "5" under       *)
(* integer-or-string becomes the number.)                                  *)
FittingUntouched ==
  Len(schema.ty) = 1 =>
    /\ Fits(value, schema) => coerced = value
    /\ value.t # "string" \/ value.of # "json" =>
         coerced = value \/ TypeMatches(coerced, schema.ty[1])
=============================================================================
