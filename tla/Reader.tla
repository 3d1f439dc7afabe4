------------------------------- MODULE Reader -------------------------------
(***************************************************************************)
(* Compilation units as text: what the writer makes of a unit (emitS and   *)
(* snode_print), and the reader, which first turns text into a tree of     *)
(* nodes (snode_parse, one recursion per open list) and then the tree into *)
(* a unit (parseS).                                                        *)
(*                                                                         *)
(* A text is a sequence of characters, of which a keyword or a number is   *)
(* one: only names are spelled.  The buffer a token is collected in has    *)
(* room for BufferMax characters.  Floating-point numbers, labels, symbol  *)
(* references and condition codes are left out.                            *)
(*                                                                         *)
(* A unit has a target, options, types, and functions; a function has a    *)
(* name, whether it is exported, and blocks as in Cir.                     *)
(***************************************************************************)
EXTENDS Cir

CONSTANTS
  BufferMax,   (* BUFFER_MAX, 512 in the code *)
  MaxNumber    (* bound: the largest number in a text *)

ASSUME ReaderAssumption == BufferMax \in Nat \ {0} /\ MaxNumber \in Nat

VARIABLES
  source,   (* the unit that was written                                 *)
  text,     (* the text that is read                                     *)
  rest,     (* the characters that are still to be read                  *)
  open,     (* the nodes read so far of each list that is open, the      *)
            (* outermost first; no list once the reading has ended       *)
  tree,     (* the outermost list, when it has been read                 *)
  unit,     (* what has been made of the tree                            *)
  refused   (* the reader has called exit                                *)

readerVars == <<source, text, rest, open, tree, unit, refused>>

Numeral == [n \in 0 .. MaxNumber |-> ToString(n)]

Node(type, value) == [type |-> type, value |-> value]
Sym(word) == Node("symbol", <<word>>)
Str(chars) == Node("string", chars)
Num(n) == Node("integer", <<Numeral[n]>>)
Lst(nodes) == Node("list", nodes)
KeyValue(key, node) == Lst(<<Sym(key), node>>)

Each(s, F(_)) == [n \in DOMAIN s |-> F(s[n])]

-----------------------------------------------------------------------------
(* Writing. *)

OpKeys == <<"a", "b", "addr", "then", "els", "start", "cond", "endex", "do">>
BlockKeys == {"then", "els", "start", "cond", "endex", "do"}

TypedVars(vs, tys) == Lst([n \in DOMAIN vs |-> Lst(<<Str(tys[n]), Num(vs[n])>>)])

EmitValue(x) ==
  IF x = Uninit THEN Lst(<<Sym("uninit")>>)
  ELSE Lst(<<Sym(IF x \in Var THEN "var" ELSE "int"), Num(x)>>)

RECURSIVE EmitBlock(_, _)
EmitBlock(p, b) ==
  LET param(op, key) ==
        Lst(<<Str(<<key>>),
              CASE key \in BlockKeys -> Lst(<<Sym("block"), EmitBlock(p, op[key])>>)
                [] key = "addr" -> Lst(<<Sym("blockref"), Str(op.addr)>>)
                [] OTHER -> EmitValue(op[key])>>)
      params(op) == Each(SelectSeq(OpKeys, LAMBDA key : op[key] # None),
                         LAMBDA key : param(op, key))
      emitted(op) == Lst(<<KeyValue("outs", TypedVars(op.outs, op.tys)),
                           KeyValue("name", Str(<<op.id>>)),
                           KeyValue("params", Lst(params(op))),
                           KeyValue("args", Lst(Each(op.args, EmitValue)))>>)
  IN  Lst(<<KeyValue("args", TypedVars(p[b].ins, p[b].tys)),
            KeyValue("ops", Lst(Each(p[b].ops, emitted))),
            KeyValue("rets", Lst(Each(p[b].outs, Num)))>>)

EmitBool(v) == Num(IF v THEN 1 ELSE 0)

(* Faulty variant: one option is written for another. *)
EmitOptTwice(opt) ==
  Lst(<<KeyValue("max_total_cmov_inline_cost", Num(opt.cost)),
        KeyValue("consteval_iterations", Num(opt.iterations)),
        KeyValue("loop_simplify", EmitBool(opt.loops)),
        KeyValue("if_eval", EmitBool(opt.loops))>>)

EmitOpt(opt) ==
  Lst(<<KeyValue("max_total_cmov_inline_cost", Num(opt.cost)),
        KeyValue("consteval_iterations", Num(opt.iterations)),
        KeyValue("loop_simplify", EmitBool(opt.loops)),
        KeyValue("if_eval", EmitBool(opt.ifs))>>)

EmitType(ty) ==
  Lst(<<Str(ty.name), Sym("simple"),
        Lst(<<KeyValue("float", EmitBool(ty.float)), KeyValue("size", Num(ty.size)),
              KeyValue("align", Num(ty.align))>>)>>)

EmitFunction(f) ==
  Lst(<<Lst(<<KeyValue("name", Str(f.name)), KeyValue("export", EmitBool(f.export))>>),
        Lst(<<Sym("block"), EmitBlock(f.blocks, Root)>>)>>)

(* vx_CU_emitS *)
EmitUnit(u) ==
  Lst(<<Str(u.target), KeyValue("opt", EmitOpt(u.opt))>>
        \o Each(u.types, LAMBDA ty : KeyValue("type", EmitType(ty)))
        \o Each(u.functions, LAMBDA f : KeyValue("cu-block", EmitFunction(f))))

(* snode_print: nodes of a list are separated by one space. *)
Spaced(texts) ==
  FlattenSeq([n \in DOMAIN texts |-> IF n = 1 THEN texts[n] ELSE <<" ">> \o texts[n]])

RECURSIVE PrintNode(_)
PrintNode(node) ==
  CASE node.type = "list" -> <<"(">> \o Spaced(Each(node.value, PrintNode)) \o <<")">>
    [] node.type = "string" -> <<"\"">> \o node.value \o <<"\"">>
    [] OTHER -> node.value

Written(u) == PrintNode(EmitUnit(u))

-----------------------------------------------------------------------------
(* Reading text. *)

(* Faulty variant: the place of the terminator is counted as taken. *)
TokenLengthShort(s, ends) ==
  LET upTo == {n \in DOMAIN s : s[n] \in ends}
      whole == IF upTo = {} THEN Len(s) ELSE Min(upTo) - 1
  IN  Min({whole, BufferMax - 1})

(* read_value: the length of the token at the head of s. *)
TokenLength(s, ends) ==
  LET upTo == {n \in DOMAIN s : s[n] \in ends}
      whole == IF upTo = {} THEN Len(s) ELSE Min(upTo) - 1
  IN  Min({whole, BufferMax})

From(s, n) == SubSeq(s, n, Len(s))

WithNode(lists, node) == [lists EXCEPT ![Len(lists)] = Append(@, node)]

WithoutInner(lists) == WithNode(Front(lists), Lst(Last(lists)))

Next1(c) == open # <<>> /\ rest # <<>> /\ Head(rest) = c

OnlyText == UNCHANGED <<source, text, tree, unit, refused>>

OpenList ==
  /\ Next1("(")
  /\ open' = Append(open, <<>>)
  /\ rest' = Tail(rest)
  /\ OnlyText

CloseList ==
  /\ Next1(")") /\ Len(open) > 1
  /\ open' = WithoutInner(open)
  /\ rest' = Tail(rest)
  /\ OnlyText

SkipSpace ==
  /\ Next1(" ")
  /\ rest' = Tail(rest)
  /\ UNCHANGED open
  /\ OnlyText

(* What ends a string is read with it, whether it is the quote or the      *)
(* character for which there is no room.                                   *)
ReadString ==
  /\ Next1("\"")
  /\ LET content == Tail(rest)
         n == TokenLength(content, {"\""})
     IN  /\ open' = WithNode(open, Str(SubSeq(content, 1, n)))
         /\ rest' = From(content, n + 2)
  /\ OnlyText

(* What ends another token is put back. *)
ReadAtom ==
  /\ open # <<>> /\ rest # <<>> /\ Head(rest) \notin {"(", ")", " ", "\""}
  /\ LET n == TokenLength(rest, {"(", ")", " "})
         value == SubSeq(rest, 1, n)
         type == IF n = 1 /\ \E m \in DOMAIN Numeral : Numeral[m] = value[1]
                 THEN "integer" ELSE "symbol"
     IN  /\ open' = WithNode(open, Node(type, value))
         /\ rest' = From(rest, n + 1)
  /\ OnlyText

(* The text has ended, and with it every list that is still open; or the   *)
(* outermost list has been closed.                                         *)
EndRead ==
  /\ open # <<>>
  /\ rest # <<>> => Head(rest) = ")" /\ Len(open) = 1
  /\ tree' = FoldRight(LAMBDA outer, inner :
                         IF inner = None THEN outer ELSE Append(outer, Lst(inner)), open, None)
  /\ open' = <<>>
  /\ rest' = IF rest = <<>> THEN rest ELSE Tail(rest)
  /\ UNCHANGED <<source, text, unit, refused>>

-----------------------------------------------------------------------------
(* Reading the tree.  Whatever is not as expected ends the program. *)

IsPair(node) == node.type = "list" /\ Len(node.value) >= 2

Missing == Node("missing", <<>>)

(* snode_kv_get: no pair in front of the one that is looked for may be bad. *)
Get(nodes, key) ==
  LET good == {n \in DOMAIN nodes : IsPair(nodes[n]) /\ nodes[n].value[1].type = "symbol"}
      hits == {n \in good : nodes[n].value[1] = Sym(key)}
  IN  IF hits # {} /\ 1 .. Min(hits) \subseteq good THEN nodes[Min(hits)].value[2] ELSE Missing

Has(nodes, keys, type) == \A key \in keys : Get(nodes, key).type = type

NumberOf(node) == CHOOSE n \in DOMAIN Numeral : Numeral[n] = node.value[1]

(* vx_bool_parseS *)
IsBool(node) == node.type = "integer" /\ NumberOf(node) \in {0, 1}
Bool(node) == NumberOf(node) = 1

TypeNames == {unit.types[n].name : n \in DOMAIN unit.types}

(* Faulty variant: the search stops in front of the last function. *)
FunctionNamesButLast ==
  {unit.functions[n].name : n \in 1 .. Len(unit.functions) - 1}

(* vx_CU_blockByName finds the functions that have been read. *)
FunctionNames == {unit.functions[n].name : n \in DOMAIN unit.functions}

TypedVarOk(node) ==
  /\ IsPair(node) /\ node.value[1].type = "string" /\ node.value[2].type = "integer"
  /\ node.value[1].value \in TypeNames

All(nodes, Ok(_)) == \A n \in DOMAIN nodes : Ok(nodes[n])

RECURSIVE BlockOk(_)
ValueOk(node) ==
  LET kind == node.value[1]
      given == node.value[2]
  IN  /\ node.type = "list" /\ node.value # <<>> /\ kind.type = "symbol"
      /\ kind # Sym("uninit") => IsPair(node)
      /\ CASE kind \in {Sym("int"), Sym("var")} -> given.type = "integer"
           [] kind = Sym("blockref") -> given.type = "string" /\ given.value \in FunctionNames
           [] kind = Sym("block") -> BlockOk(given)
           [] OTHER -> kind = Sym("uninit")

ParamOk(node) == IsPair(node) /\ node.value[1].type = "string" /\ ValueOk(node.value[2])

OpOk(node) ==
  /\ node.type = "list"
  /\ Has(node.value, {"outs", "params", "args"}, "list") /\ Has(node.value, {"name"}, "string")
  /\ All(Get(node.value, "outs").value, TypedVarOk)
  /\ All(Get(node.value, "params").value, ParamOk)
  /\ All(Get(node.value, "args").value, ValueOk)

(* Faulty variant: a block need not say what it returns. *)
BlockOkWithoutRets(node) ==
  /\ node.type = "list" /\ Has(node.value, {"args", "ops"}, "list")
  /\ All(Get(node.value, "args").value, TypedVarOk)
  /\ All(Get(node.value, "ops").value, OpOk)

BlockOk(node) ==
  /\ node.type = "list" /\ Has(node.value, {"args", "ops", "rets"}, "list")
  /\ All(Get(node.value, "args").value, TypedVarOk)
  /\ All(Get(node.value, "ops").value, OpOk)
  /\ All(Get(node.value, "rets").value, LAMBDA ret : ret.type = "integer")

ParseVars(nodes) == Each(nodes, LAMBDA node : NumberOf(node.value[2]))
ParseTypes(nodes) == Each(nodes, LAMBDA node : node.value[1].value)

ParseValue(node) ==
  IF node.value[1] = Sym("uninit") THEN Uninit ELSE NumberOf(node.value[2])

(* The block as a sequence of blocks, itself at place "at"; those nested   *)
(* in it follow in the order in which they are read.  Nested blocks learn  *)
(* which block they are in, but not which op.                              *)
RECURSIVE ParseBlock(_, _, _)
ParseBlock(node, parent, at) ==
  LET nodes(n, key) == Get(n.value, key).value
      param(acc, pair) ==
        LET key == pair.value[1].value[1]
            value == pair.value[2]
            b == at + 1 + Len(acc.blocks)
        IN  CASE key \in BlockKeys ->
                   [op |-> [acc.op EXCEPT ![key] = b],
                    blocks |-> acc.blocks \o ParseBlock(value.value[2], at, b)]
              [] key = "addr" -> [acc EXCEPT !.op.addr = value.value[2].value]
              [] OTHER -> [acc EXCEPT !.op[key] = ParseValue(value)]
      plain(n) ==
        MakeCirOp(MakeSsaOp(Get(n.value, "name").value[1], ParseVars(nodes(n, "outs")), None, None,
                            Each(nodes(n, "args"), ParseValue), None, None, None, None),
                  ParseTypes(nodes(n, "outs")), None, None, None)
      op(acc, n) ==
        LET read == FoldLeft(param, [op |-> plain(n), blocks |-> acc.blocks], nodes(n, "params"))
        IN  [ops |-> Append(acc.ops, read.op), blocks |-> read.blocks]
      all == FoldLeft(op, [ops |-> <<>>, blocks |-> <<>>], nodes(node, "ops"))
  IN  <<MakeCirBlock(parent, "NULL", ParseVars(nodes(node, "args")),
                     ParseTypes(nodes(node, "args")), all.ops, Each(nodes(node, "rets"), NumberOf))>>
        \o all.blocks

-----------------------------------------------------------------------------
(* vx_CU_parseS, one element of the unit after the other. *)
NoUnit == [target |-> None, opt |-> None, types |-> <<>>, functions |-> <<>>]

AtElements == open = <<>> /\ ~refused /\ unit.target # None /\ tree # <<>>

IsElement(key) ==
  /\ IsPair(Head(tree)) /\ Head(tree).value[1].type = "symbol"
  /\ Head(tree).value[1] = Sym(key)

Given == Head(tree).value[2]

ElementRead ==
  /\ tree' = Tail(tree)
  /\ UNCHANGED <<source, text, rest, open, refused>>

(* The tree is one list, whose first element is the target; text behind it *)
(* is refused.                                                             *)
UnitOk ==
  /\ rest = <<>> /\ tree # <<>> /\ Head(tree).type = "list"
  /\ Head(tree).value # <<>> /\ Head(tree).value[1].type = "string"

AtUnit == open = <<>> /\ ~refused /\ unit.target = None

BeginUnit ==
  /\ AtUnit /\ UnitOk
  /\ unit' = [unit EXCEPT !.target = Head(tree).value[1].value]
  /\ tree' = Tail(Head(tree).value)
  /\ UNCHANGED <<source, text, rest, open, refused>>

OptOk ==
  /\ IsElement("opt") /\ unit.opt = None /\ Given.type = "list"
  /\ Has(Given.value, {"max_total_cmov_inline_cost", "consteval_iterations"}, "integer")
  /\ \A key \in {"loop_simplify", "if_eval"} : IsBool(Get(Given.value, key))

ReadOpt ==
  /\ AtElements /\ OptOk
  /\ unit' = [unit EXCEPT !.opt =
                [cost |-> NumberOf(Get(Given.value, "max_total_cmov_inline_cost")),
                 iterations |-> NumberOf(Get(Given.value, "consteval_iterations")),
                 loops |-> Bool(Get(Given.value, "loop_simplify")),
                 ifs |-> Bool(Get(Given.value, "if_eval"))]]
  /\ ElementRead

TypeOk ==
  /\ IsElement("type") /\ Given.type = "list" /\ Len(Given.value) >= 3
  /\ Given.value[1].type = "string" /\ Given.value[2].type = "symbol"
  /\ Given.value[2] = Sym("simple") /\ Given.value[3].type = "list"
  /\ IsBool(Get(Given.value[3].value, "float"))
  /\ Has(Given.value[3].value, {"size", "align"}, "integer")

ReadType ==
  /\ AtElements /\ TypeOk
  /\ LET of == Given.value[3].value
     IN  unit' = [unit EXCEPT !.types = Append(@,
                   [name |-> Given.value[1].value, float |-> Bool(Get(of, "float")),
                    size |-> NumberOf(Get(of, "size")), align |-> NumberOf(Get(of, "align"))])]
  /\ ElementRead

FunctionOk ==
  /\ IsElement("cu-block") /\ IsPair(Given) /\ All(Given.value, LAMBDA part : part.type = "list")
  /\ LET inner == Given.value[2].value
         attributes == Given.value[1].value
     IN  /\ Len(inner) >= 2 /\ inner[1].type = "symbol" /\ inner[1] = Sym("block")
         /\ BlockOk(inner[2])
         /\ Has(attributes, {"name"}, "string") /\ IsBool(Get(attributes, "export"))

(* (The reader also runs "fix" over the function; compilation begins with  *)
(* the same again.)                                                        *)
ReadFunction ==
  /\ AtElements /\ FunctionOk
  /\ LET attributes == Given.value[1].value
         function == [name |-> Get(attributes, "name").value,
                      export |-> Bool(Get(attributes, "export")),
                      blocks |-> ParseBlock(Given.value[2].value[2], 0, Root)]
     IN  unit' = [unit EXCEPT !.functions = Append(@, function)]
  /\ ElementRead

Refuse ==
  /\ \/ AtUnit /\ ~UnitOk
     \/ AtElements /\ ~OptOk /\ ~TypeOk /\ ~FunctionOk
  /\ refused' = TRUE
  /\ UNCHANGED <<source, text, rest, open, tree, unit>>

ReadText(u, written) ==
  /\ source = u /\ text = written /\ rest = written /\ open = << <<>> >>
  /\ tree = <<>> /\ unit = NoUnit /\ refused = FALSE

ReaderStep ==
  \/ OpenList \/ CloseList \/ SkipSpace \/ ReadString \/ ReadAtom \/ EndRead
  \/ BeginUnit \/ ReadOpt \/ ReadType \/ ReadFunction \/ Refuse

HasRead == open = <<>> /\ ~refused /\ unit.target # None /\ tree = <<>>

=============================================================================
