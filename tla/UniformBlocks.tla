------------------------------ MODULE UniformBlocks ------------------------------
(* generated_tests/random_ubo.py: random uniform blocks, their std140 layout,   *)
(* and the shader test that sets and compares every member. A type is a record: *)
(* of kind "basic" with the unit of its components, its columns and its rows (a *)
(* scalar has one of each, a vector one column), "array" or "struct". A name is *)
(* a pair of a base and a number, the path of a member a sequence of names and  *)
(* subscripts. Definitions named for a mistake stand before what they mutate.   *)
EXTENDS Integers, SequencesExt

CONSTANTS BasicTypes,   \* the types that members are drawn from
          ArraySizes,   \* the lengths of arrays
          Requirements, \* descriptions: <<"row_major", "struct", "array", type>>
          MaxMembers,   \* bound on the members of the block
          AllowRowMajorStructure

VARIABLES fields,   \* the block: a sequence of [type, name, layout]
          names,    \* unique_name_dict: the base and the next number of each key
          structs   \* len(struct_types)
vars == <<fields, names, structs>>

Basic(u, c, r) == [kind |-> "basic", unit |-> u, cols |-> c, rows |-> r]
IsMatrix(t) == t.kind = "basic" /\ t.cols > 1
Numbered(base, n) == <<<<base, 0, 0>>, n>>
Subscript(i) == Numbered("index", i)
RECURSIVE WithoutArray(_), ArraysOfArraysSize(_)
WithoutArray(t) == IF t.kind = "array" THEN WithoutArray(t.of) ELSE t
ArraysOfArraysSize(t) == IF t.kind = "array" THEN t.n * ArraysOfArraysSize(t.of) ELSE 1
BasicMachineUnits(u) == IF u = "double" THEN 8 ELSE 4

\* The code divides with / where it means //: nothing is rounded.
Align(offset, a) == offset + a - 1

(* std140 *)
RECURSIVE BaseAlignment(_, _), Size(_, _)
StrideUnpadded(t, row_major) ==
    BaseAlignment(Basic(t.unit, 1, IF row_major THEN t.cols ELSE t.rows), FALSE)
MatrixStride(t, row_major) == Max({16, StrideUnpadded(t, row_major)})
BaseAlignment(t, row_major) ==
    CASE t.kind = "array" -> Max({16, BaseAlignment(t.of, row_major)})
      [] t.kind = "struct" -> Max({16} \cup {BaseAlignment(f.type, row_major) : f \in ToSet(t.fields)})
      [] IsMatrix(t) -> MatrixStride(t, row_major)
      [] OTHER -> (IF t.rows = 3 THEN 4 ELSE t.rows) * BasicMachineUnits(t.unit)
StrideOfOneVector(t, row_major) == Max({16, BaseAlignment(WithoutArray(t), row_major)})
ArrayStride(t, row_major) ==
    LET base == WithoutArray(t)
    IN  IF base.kind = "struct" THEN Align(Size(base, row_major), BaseAlignment(base, row_major))
        ELSE Max({16, BaseAlignment(base, row_major), Size(base, row_major)})
Size(t, row_major) ==
    CASE t.kind = "array" -> ArrayStride(t, row_major) * ArraysOfArraysSize(t)
      [] IsMatrix(t) -> (IF row_major THEN t.rows ELSE t.cols) * MatrixStride(t, row_major)
      [] t.kind = "basic" /\ ~IsMatrix(t) -> t.rows * BasicMachineUnits(t.unit)
      [] OTHER -> LET After(s, f) == Align(s, BaseAlignment(f.type, row_major)) + Size(f.type, row_major)
                  IN  Align(FoldLeft(After, 0, t.fields), BaseAlignment(t, row_major))

(* The members of a block, each with its offset and orientation *)
Oriented(f, row_major) == f.layout = "row_major" \/ (f.layout # "column_major" /\ row_major)
Member(path, t, offset, row_major) ==
    [path |-> path, type |-> t, offset |-> offset,
     row_major |-> row_major /\ (WithoutArray(t).kind = "struct" \/ IsMatrix(WithoutArray(t)))]
RECURSIVE Members(_, _, _, _), Elements(_, _, _, _)
Elements(t, path, offset, row_major) ==
    LET start(i) == Align(offset, BaseAlignment(t, row_major))
                    + ArrayStride(t, row_major) * i * ArraysOfArraysSize(t.of)
        at(i) == Append(path, Subscript(i))
    IN  FlattenSeq([k \in 1..t.n |->
            IF t.of.kind = "array" THEN Elements(t.of, at(k - 1), start(k - 1), row_major)
            ELSE <<Member(at(k - 1), t.of, start(k - 1), row_major)>>
                 \o Members(t.of.fields, at(k - 1), start(k - 1), row_major)])
Members(fs, path, offset, row_major) ==
    IF fs = <<>> THEN <<>>
    ELSE LET f == Head(fs)
             rm == Oriented(f, row_major)
             start == Align(offset, BaseAlignment(f.type, rm))
             here == Append(path, f.name)
         IN  <<Member(here, f.type, offset, rm)>>
             \o (CASE f.type.kind = "struct" -> Members(f.type.fields, here, start, rm)
                   [] f.type.kind = "array" /\ WithoutArray(f.type).kind = "struct" -> Elements(f.type, here, offset, rm)
                   [] OTHER -> <<>>)
             \o Members(Tail(fs), path, start + Size(f.type, rm), row_major)

(* generate_test_vectors: what the test asks the driver about each basic member *)
TestVectors(ms) ==
    LET Asked(m) == [name |-> m.path,
                     offset |-> Align(m.offset, BaseAlignment(m.type, m.row_major)),
                     astride |-> IF m.type.kind = "array" THEN ArrayStride(m.type, m.row_major) ELSE 0,
                     mstride |-> IF IsMatrix(WithoutArray(m.type))
                                 THEN MatrixStride(WithoutArray(m.type), m.row_major) ELSE 0,
                     row_major |-> m.row_major, type |-> m.type]
        IsBasic(m) == WithoutArray(m.type).kind = "basic"
    IN  [i \in 1..Len(SelectSeq(ms, IsBasic)) |-> Asked(SelectSeq(ms, IsBasic)[i])]

(* The blocks of one test: the same members, declared in three ways *)
RelayoutMatricesOnly(l) == CASE l = "row_major" -> "#row_major" [] OTHER -> l
RelayoutForDefaultRowMajor(l) ==
    CASE l = "row_major" -> "#row_major"
      [] l \in {"column_major", "#column_major"} -> "column_major"
      [] OTHER -> ""
BlockRowMajorDefault(global_layout, block_layout) ==
    \/ "row_major" \in block_layout
    \/ "row_major" \in global_layout /\ "column_major" \notin block_layout
BlockList ==
    LET inverted == [i \in 1..Len(fields) |->
            [fields[i] EXCEPT !.layout = RelayoutForDefaultRowMajor(@)]]
    IN  << [name |-> "UB1", global |-> {}, block |-> {"std140"}, fields |-> fields],
           [name |-> "UB2", global |-> {}, block |-> {"std140", "row_major"}, fields |-> inverted],
           [name |-> "UB3", global |-> {"std140", "row_major"}, block |-> {}, fields |-> inverted] >>
\* UB1 has no instance name: its members are named without it.
MembersOf(b) == Members(b.fields, IF b.name = "UB1" THEN <<>> ELSE <<Numbered(b.name, 0)>>, 0,
                        BlockRowMajorDefault(b.global, b.block))

(* iterate_structures: the structures to declare, the contained ones first *)
RECURSIVE IterateStructures(_, _)
IterateStructures(fs, yielded) ==
    FoldLeft(LAMBDA seen, f :
        LET t == WithoutArray(f.type)
        IN  IF t.kind # "struct" THEN seen
            ELSE LET inner == IterateStructures(t.fields, seen)
                 IN  IF t.id \in ToSet(inner) THEN inner ELSE Append(inner, t.id),
        yielded, fs)

(* generate_data_pairs: for every element that is set, its comparisons. A datum *)
(* is the place of a component in the values that set the element.              *)
RECURSIVE Subscripts(_)
Subscripts(t) == IF t.kind # "array" THEN {<<>>}
                 ELSE {<<Subscript(i - 1)>> \o s : i \in 1..t.n, s \in Subscripts(t.of)}
Setters(ms) == UNION {{[name |-> m.path \o s, type |-> WithoutArray(m.type)] : s \in Subscripts(m.type)} :
                         m \in {x \in ToSet(ms) : WithoutArray(x.type).kind = "basic"}}
Checkers(ms) == UNION {{[name |-> s.name, col |-> c, row |-> r, datum |-> (c - 1) * s.type.rows + r] :
                           c \in 1..s.type.cols, r \in 1..s.type.rows} : s \in Setters(ms)}

(* emit_shader_test: what the text of the test holds, each structure declared   *)
(* once for all the blocks. Of the comparisons the shader has every fifth;      *)
(* which ones is left out.                                                      *)
EmitShaderTest ==
    LET OfBlocks(f) == FlattenSeq([i \in DOMAIN BlockList |-> f[i]])
        members == OfBlocks([i \in DOMAIN BlockList |-> MembersOf(BlockList[i])])
    IN  [structures |-> IterateStructures(OfBlocks([i \in DOMAIN BlockList |-> BlockList[i].fields]), <<>>),
         members |-> members,
         test_vectors |-> OfBlocks([i \in DOMAIN BlockList |-> TestVectors(MembersOf(BlockList[i]))]),
         setters |-> Setters(members),
         checkers |-> Checkers(members)]
--------------------------------------------------------------------------------
(* The generation of the block *)
(* main: what may be required, four levels of arrays and structures, an array   *)
(* directly of an array only where GLSL has these, with an orientation only if  *)
(* there is a structure and GLSL is 1.50.                                       *)
Described(arrays_of_arrays) ==
    {x \in [1..4 -> {"array", "struct"}] :
        arrays_of_arrays \/ \A i \in 1..3 : x[i] = "array" => x[i + 1] = "struct"}
Drawn(arrays_of_arrays) ==
    Described(arrays_of_arrays)
    \cup {<<o>> \o x : o \in {y \in {"row_major", "column_major", "#column_major"} : AllowRowMajorStructure},
                      x \in {y \in Described(arrays_of_arrays) : "struct" \in ToSet(y)}}

Digit == 1..4
\* trim_name strips the digits 1 to 4 from the ends of every name that is
\* neither a matrix nor a scalar, structures included.
TrimName(t) == CASE t.kind = "struct" -> <<"S", IF t.id \in Digit THEN 0 ELSE t.id, 0>>
                 [] t.kind = "basic" -> <<t.unit, t.cols, IF t.cols = 1 /\ t.rows > 1 THEN 2 ELSE t.rows>>
BaseOf(t) == CASE t.kind = "struct" -> <<"s", t.id, 0>>
               [] OTHER -> TrimName(t)
\* Every member asks for a name, of the type without its arrays.
Known(t, dict) == IF TrimName(t) \in DOMAIN dict THEN dict[TrimName(t)] ELSE [base |-> BaseOf(t), count |-> 1]
GetName(t, dict) == <<Known(t, dict).base, Known(t, dict).count>>
CountName(t, dict) == (TrimName(t) :> [Known(t, dict) EXCEPT !.count = @ + 1]) @@ dict

Made(t, n, dict, s) == [type |-> t, name |-> n, dict |-> dict, structs |-> s]
SelectBasicType(types, dict, s) == {Made(t, GetName(t, dict), CountName(t, dict), s) : t \in types}
\* All members a description can give. A structure gets one more field, the
\* first of the 1 to 12 the code draws, at any place.
RECURSIVE MemberFromDescription(_, _, _)
MemberFromDescription(description, dict, s) ==
    IF description = <<>> THEN SelectBasicType(BasicTypes, dict, s)
    ELSE LET item == Head(description)
             rest == Tail(description)
         IN  CASE item = "array" ->
                    {[g EXCEPT !.type = [kind |-> "array", of |-> @, n |-> n]] :
                        g \in MemberFromDescription(rest, dict, s), n \in ArraySizes}
               [] item = "struct" ->
                    UNION {UNION {
                        LET id == g.structs + 1
                            field(x) == [type |-> x.type, name |-> x.name, layout |-> ""]
                        IN  {LET t == [kind |-> "struct", id |-> id,
                                       fields |-> IF j = 0 THEN <<field(g), field(e)>> ELSE <<field(e), field(g)>>]
                             IN  Made(t, GetName(t, g.dict), CountName(t, g.dict), id) : j \in {0, 1}}
                        : g \in MemberFromDescription(rest, e.dict, s)}
                        : e \in SelectBasicType(BasicTypes, dict, s)}
               [] OTHER -> MemberFromDescription(rest, dict, s)  \* an orientation

Layouts(t, required) ==
    IF required # "" THEN {required}
    ELSE IF WithoutArray(t).kind = "struct" /\ ~AllowRowMajorStructure THEN {"#column_major"}
    ELSE IF WithoutArray(t).kind = "struct" \/ IsMatrix(WithoutArray(t))
         THEN {"#column_major", "row_major", "column_major"}
    ELSE {""}
Orientation(d) == IF d # <<>> /\ Head(d) \in {"row_major", "column_major", "#column_major"} THEN Head(d) ELSE ""

\* A required member, or (for the description <<>>) one of the random members.
AddMember(d) ==
    /\ Len(fields) < MaxMembers
    /\ \E g \in MemberFromDescription(d, names, structs) : \E l \in Layouts(g.type, Orientation(d)) :
          /\ fields' = Append(fields, [type |-> g.type, name |-> g.name, layout |-> l])
          /\ names' = g.dict
          /\ structs' = g.structs

Init == fields = <<>> /\ names = <<>> /\ structs = 0
Next == \E d \in Requirements \cup {<<>>} : AddMember(d)
Spec == Init /\ [][Next]_vars
--------------------------------------------------------------------------------
(* The bytes of a basic member: one span for each vector of each element.       *)
Spans(v) ==
    LET t == WithoutArray(v.type)
        vectors == IF IsMatrix(t) /\ v.row_major THEN t.rows ELSE t.cols
        length == (IF IsMatrix(t) /\ v.row_major THEN t.cols ELSE t.rows) * BasicMachineUnits(t.unit)
    IN  {LET start == v.offset + (e - 1) * v.astride + (k - 1) * v.mstride IN <<start, start + length>> :
            e \in 1..ArraysOfArraysSize(v.type), k \in 1..vectors}

\* No byte of a block belongs to two members, nor to two elements of an array or
\* two vectors of a matrix, whatever contains them: the offsets and the strides
\* of the test vectors leave room for what the members hold.
MembersDisjoint ==
    \A b \in ToSet(BlockList) : LET vs == TestVectors(MembersOf(b)) IN
        \A i, j \in 1..Len(vs) : \A x \in Spans(vs[i]), y \in Spans(vs[j]) :
            <<i, x>> = <<j, y>> \/ x[2] <= y[1] \/ y[2] <= x[1]

\* The three blocks of a test have one layout (generate_block_list says so of
\* them): what is row-major, where it is and with which strides does not depend
\* on whether the orientation is declared for the member, the block or globally.
BlocksAgree ==
    LET Laid(b) == LET vs == TestVectors(MembersOf(b))
                   IN  [i \in 1..Len(vs) |-> <<vs[i].offset, vs[i].astride, vs[i].mstride, vs[i].row_major>>]
    IN  \A b \in ToSet(BlockList) : Laid(b) = Laid(BlockList[1])

\* The generated shader compiles and says which uniform it means: no two members
\* of the blocks share a name; a structure is declared once, behind those it
\* contains; the comparisons of an element use each value it was set to once; and
\* every member but the structures is asked about.
NamesAndDeclarations ==
    LET test == EmitShaderTest
        ms == test.members
        declared == test.structures
        Before(x, y) == \E i, j \in 1..Len(declared) : i < j /\ declared[i] = x /\ declared[j] = y
    IN  /\ \A i, j \in 1..Len(ms) : ms[i].path = ms[j].path => i = j
        /\ ToSet(declared) = 1..structs /\ Len(declared) = structs
        /\ \A m \in ToSet(ms) : LET t == WithoutArray(m.type) IN t.kind = "struct" =>
              \A f \in ToSet(t.fields) : LET u == WithoutArray(f.type) IN u.kind = "struct" => Before(u.id, t.id)
        /\ \A s \in test.setters : {c.datum : c \in {c \in test.checkers : c.name = s.name}} = 1..(s.type.cols * s.type.rows)
        /\ {v.name : v \in ToSet(test.test_vectors)} = {m.path : m \in {x \in ToSet(ms) : WithoutArray(x.type).kind = "basic"}}
================================================================================
