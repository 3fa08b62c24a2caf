------------------------------- MODULE GeNode -------------------------------
(***************************************************************************)
(* Command nodes of the graphics engine.  A node is a header whose low     *)
(* bits say which groups of words follow, and the words of those groups in *)
(* the order of the bits.  hcge_node_build makes a node from a context;    *)
(* fill, blit and stretch-blit write theirs word by word, each next to a   *)
(* header constant.  A written node is modelled by the set of groups its   *)
(* header announces and the group each emitted word belongs to.            *)
(***************************************************************************)
EXTENDS Naturals, Sequences, FiniteSets, FiniteSetsExt, SequencesExt

(* The groups of group_layouts in bit order, with their numbers of words. *)
GroupOrder ==
    <<"FUNC", "DST_CTX", "SRC_CTX", "PTN_CTX", "MSK_CTX", "COLOR",
      "PAINT_TYPE", "COLOR_KEY", "DST_POS", "SRC_POS", "PTN_POS", "MSK_POS",
      "CLUT", "CLIP", "ROP", "DFB_GCOLOR", "MATRIX", "FILTER">>
GroupWords ==
    [FUNC |-> 1, DST_CTX |-> 2, SRC_CTX |-> 2, PTN_CTX |-> 2, MSK_CTX |-> 2,
     COLOR |-> 3, PAINT_TYPE |-> 1, COLOR_KEY |-> 2, DST_POS |-> 2,
     SRC_POS |-> 1, PTN_POS |-> 2, MSK_POS |-> 2, CLUT |-> 2, CLIP |-> 2,
     ROP |-> 1, DFB_GCOLOR |-> 1, MATRIX |-> 7, FILTER |-> 128]
Groups == DOMAIN GroupWords

NodeWords(groups) == 1 + MapThenSumSet(LAMBDA g : GroupWords[g], groups)

Words(g) == [i \in 1..GroupWords[g] |-> g]

(* What the engine expects after a header that announces these groups. *)
Expected(groups) ==
    FoldLeft(LAMBDA s, g : IF g \in groups THEN s \o Words(g) ELSE s,
             <<>>, GroupOrder)

(* hcge_node_build: a two-word prefix for each of the four surface contexts
   whose base has high bits, the header, the groups; or nothing at all. *)
BuildRequired(groups, high) == NodeWords(groups) + 2 * Cardinality(high)

BuildNode(groups, high, capacity) ==
    IF BuildRequired(groups, high) > capacity THEN <<>>
    ELSE [i \in 1..2 * Cardinality(high) |-> "BASE"]
         \o <<"HEADER">> \o Expected(groups)
-----------------------------------------------------------------------------
(* The nodes of the drawing calls *)

Opt(condition, words) == IF condition THEN words ELSE <<>>

Keyed(flags) == flags \cap {"SRC_COLORKEY", "DST_COLORKEY",
                            "CUST_SRC_COLORKEY", "CUST_DST_COLORKEY"} # {}
Rotations == {"ROTATE90", "ROTATE180", "ROTATE270"}
Rotated(flags) == flags \cap Rotations # {}

(* Size of the array the words are written to in the function's frame. *)
FillArray == 16
BlitArray == 28
StretchArray == 26

FillNode(flags) ==
    [groups |-> {"FUNC", "DST_CTX", "SRC_CTX", "COLOR", "PAINT_TYPE",
                 "DST_POS", "SRC_POS", "ROP"}
                \cup (IF "DST_COLORKEY" \in flags THEN {"COLOR_KEY"} ELSE {}),
     words |-> <<"FUNC", "DST_CTX", "DST_CTX", "SRC_CTX", "SRC_CTX", "COLOR",
                 "COLOR", "COLOR", "PAINT_TYPE">>
               \o Opt("DST_COLORKEY" \in flags, <<"COLOR_KEY", "COLOR_KEY">>)
               \o <<"DST_POS", "DST_POS", "SRC_POS", "ROP">>]

(* No effects and equal formats: the short copy node. *)
CopyNode ==
    [groups |-> {"FUNC", "DST_CTX", "SRC_CTX", "DST_POS", "SRC_POS"},
     words |-> <<"FUNC", "DST_CTX", "DST_CTX", "SRC_CTX", "SRC_CTX",
                 "DST_POS", "DST_POS", "SRC_POS">>]

CommonGroups == {"FUNC", "DST_CTX", "SRC_CTX", "PTN_CTX", "DST_POS",
                 "SRC_POS", "PTN_POS", "ROP", "DFB_GCOLOR"}

(* The words both blits write up to the positions of the rectangles. *)
CommonWords(flags) ==
    <<"FUNC", "DST_CTX", "DST_CTX", "SRC_CTX", "SRC_CTX", "PTN_CTX", "PTN_CTX">>
    \o Opt("SRC_MASK_ALPHA" \in flags, <<"MSK_CTX", "MSK_CTX">>)
    \o Opt(Keyed(flags), <<"COLOR_KEY", "COLOR_KEY">>)
    \o <<"DST_POS", "DST_POS", "SRC_POS", "PTN_POS", "PTN_POS">>

Matrix == <<"MATRIX", "MATRIX", "MATRIX", "MATRIX", "MATRIX", "MATRIX", "MATRIX">>

BlitGroups(flags) ==
    CommonGroups
    \cup (IF Rotated(flags) THEN {"MATRIX"} ELSE {})
    \cup (IF "SRC_MASK_ALPHA" \in flags THEN {"MSK_CTX", "MSK_POS"} ELSE {})
    \cup (IF Keyed(flags) THEN {"COLOR_KEY"} ELSE {})

(* Slip: the mask's position is forgotten. *)
BlitNodeNoMaskPosition(flags) ==
    [groups |-> BlitGroups(flags),
     words |-> CommonWords(flags) \o <<"ROP", "DFB_GCOLOR">>
               \o Opt(Rotated(flags), Matrix)]

BlitNode(flags) ==
    [groups |-> BlitGroups(flags),
     words |-> CommonWords(flags)
               \o Opt("SRC_MASK_ALPHA" \in flags, <<"MSK_POS", "MSK_POS">>)
               \o <<"ROP", "DFB_GCOLOR">>
               \o Opt(Rotated(flags), Matrix)]

(* A stretch always has a matrix; with a mask it announces and writes the
   mask's context only. *)
StretchNode(flags) ==
    [groups |-> CommonGroups \cup {"MATRIX"}
                \cup (IF "SRC_MASK_ALPHA" \in flags THEN {"MSK_CTX"} ELSE {})
                \cup (IF Keyed(flags) THEN {"COLOR_KEY"} ELSE {}),
     words |-> CommonWords(flags) \o <<"ROP", "DFB_GCOLOR">> \o Matrix]

Node(op, flags, sameFormat) ==
    CASE op = "fill" -> FillNode(flags)
      [] op = "blit" -> IF flags = {} /\ sameFormat THEN CopyNode
                        ELSE BlitNode(flags)
      [] op = "stretch" -> StretchNode(flags)

ArraySize(op) ==
    CASE op = "fill" -> FillArray [] op = "blit" -> BlitArray
      [] op = "stretch" -> StretchArray
-----------------------------------------------------------------------------
(* Which states an operation accepts *)

DrawingFlags == {"BLEND", "DST_COLORKEY", "SRC_PREMULTIPLY", "DST_PREMULTIPLY",
                 "DEMULTIPLY", "XOR"}
BlittingFlags == {"BLEND_ALPHACHANNEL", "BLEND_COLORALPHA", "COLORIZE",
                  "SRC_COLORKEY", "DST_COLORKEY", "SRC_PREMULTIPLY",
                  "DST_PREMULTIPLY", "DEMULTIPLY", "SRC_PREMULTCOLOR", "XOR",
                  "COLORKEY_PROTECT", "SRC_MASK_ALPHA", "FLIP_HORIZONTAL",
                  "FLIP_VERTICAL", "CUST_DST_COLORKEY", "CUST_SRC_COLORKEY"}
                 \cup Rotations

BlitEffectsSupported(flags) ==
    flags \subseteq BlittingFlags /\ Cardinality(flags \cap Rotations) <= 1

Blends(flags) ==
    flags \cap {"BLEND", "BLEND_ALPHACHANNEL", "BLEND_COLORALPHA"} # {}

(* A state is its effects (flags) and what the checks find right in it: the
   blend functions (blend), the mask's surface (mask), the colour-key
   operations (keyOp), no render options (plain), the formats (srcFormat,
   dstFormat), size, address and pitch of the surfaces (srcMemory, dstMemory),
   the rectangles inside them (inside) and inside the mask (maskInside). *)
BlitStateValid(st) ==
    /\ "SRC_MASK_ALPHA" \in st.flags => st.mask
    /\ st.flags \cap {"CUST_SRC_COLORKEY", "CUST_DST_COLORKEY"} # {} => st.keyOp

BlendFunctionsValid(st) == Blends(st.flags) => st.blend

(* Slip: a stretch is granted together with a rotation. *)
CheckStateRotating(op, st) ==
    /\ st.dstFormat
    /\ st.plain
    /\ BlendFunctionsValid(st)
    /\ \/ op = "fill" /\ st.flags \subseteq DrawingFlags
       \/ /\ op \in {"blit", "stretch"}
          /\ st.srcFormat
          /\ BlitEffectsSupported(st.flags)
          /\ BlitStateValid(st)

(* hcge_check_state for one operation. *)
CheckState(op, st) ==
    /\ st.dstFormat
    /\ st.plain
    /\ BlendFunctionsValid(st)
    /\ \/ op = "fill" /\ st.flags \subseteq DrawingFlags
       \/ /\ op \in {"blit", "stretch"}
          /\ st.srcFormat
          /\ BlitEffectsSupported(st.flags)
          /\ BlitStateValid(st)
          /\ op = "stretch" => ~Rotated(st.flags)

(* hcge_surface_valid of the surfaces the operation uses, and the checks of the
   rectangles against the surfaces and the mask (GeGeometry has the ones of the
   surfaces in numbers). *)
DestinationValid(st) == st.dstFormat /\ st.dstMemory
SourceValid(st) == st.srcFormat /\ st.srcMemory

MaskCovers(st) == "SRC_MASK_ALPHA" \in st.flags => st.maskInside

(* hcge_fill_rect, hcge_blit and hcge_stretch_blit go on to write a node; the
   render options are not looked at again. *)
OperationAccepts(op, st) ==
    /\ BlendFunctionsValid(st)
    /\ st.inside
    /\ DestinationValid(st)
    /\ \/ op = "fill" /\ st.flags \subseteq DrawingFlags
       \/ /\ op \in {"blit", "stretch"}
          /\ SourceValid(st)
          /\ BlitEffectsSupported(st.flags)
          /\ BlitStateValid(st)
          /\ MaskCovers(st)
          /\ op = "stretch" => ~Rotated(st.flags)
=============================================================================
