----------------------------- MODULE UvcField -----------------------------
(***************************************************************************)
(* The fields of the controls of a camera (usbh_vc_ctrl.c): the tables of  *)
(* controls and of the fields mapped on them, and how a field is read from *)
(* and written to the little-endian bytes of its control.                  *)
(***************************************************************************)
EXTENDS Integers, FiniteSets, FiniteSetsExt

CONSTANTS Sizes, Offsets, Fills, Values   \* Fills: what the bytes hold at first

VARIABLES
    field,      \* the mapping: how (its functions), bit, size, signed and button
    data,       \* bytes of the control
    orig,       \* ghost: the bytes before
    value,      \* the value set
    done        \* it has been set

fieldVars == <<field, data, orig, value, done>>
-----------------------------------------------------------------------------
(* uvc_ctrls_info: selectors with their bytes; bit of bmControls.          *)

ProcessingInfo ==
    {<<0, "brightness", 2>>, <<1, "contrast", 2>>, <<2, "hue", 2>>, <<3, "saturation", 2>>,
     <<4, "sharpness", 2>>, <<5, "gamma", 2>>, <<6, "wb temperature", 2>>,
     <<7, "wb component", 4>>, <<8, "backlight", 2>>, <<9, "gain", 2>>,
     <<10, "power line", 1>>, <<11, "hue auto", 1>>, <<12, "wb temperature auto", 1>>,
     <<13, "wb component auto", 1>>, <<14, "multiplier", 2>>, <<15, "multiplier limit", 2>>,
     <<16, "video standard", 1>>, <<17, "lock status", 1>>}
CameraInfo ==
    {<<0, "scanning", 1>>, <<1, "ae mode", 1>>, <<2, "ae priority", 1>>,
     <<3, "exposure", 4>>, <<4, "exposure rel", 1>>, <<5, "focus", 2>>,
     <<6, "focus rel", 2>>, <<7, "iris", 2>>, <<8, "iris rel", 1>>, <<9, "zoom", 2>>,
     <<10, "zoom rel", 3>>, <<11, "pantilt", 8>>, <<12, "pantilt rel", 4>>,
     <<13, "roll", 2>>, <<14, "roll rel", 2>>, <<17, "focus auto", 1>>, <<18, "privacy", 1>>}

Fld(id, sel, size, bit) == [id |-> id, sel |-> sel, size |-> size, bit |-> bit]

\* uvc_ctrl_mappings; the two automatic white balances have one id.
ExposureMaps ==
    {Fld("ae mode", "ae mode", 8, 0), Fld("ae priority", "ae priority", 1, 0),
     Fld("exposure", "exposure", 32, 0)}
\* Mutant of WhiteBalanceMaps: red is mapped where blue is.
WhiteBalanceMapsOver ==
    {Fld("blue", "wb component", 16, 0), Fld("red", "wb component", 16, 0)}
WhiteBalanceMaps ==
    {Fld("auto wb", s, 1, 0) : s \in {"wb temperature auto", "wb component auto"}}
    \cup {Fld("wb temperature", "wb temperature", 16, 0),
          Fld("blue", "wb component", 16, 0), Fld("red", "wb component", 16, 16)}
ProcessingMaps ==
    {Fld(s, s, 16, 0) : s \in {"brightness", "contrast", "hue", "saturation", "sharpness",
                               "gamma", "backlight", "gain"}}
    \cup {Fld("power line", "power line", 2, 0), Fld("hue auto", "hue auto", 1, 0)}
CameraMaps ==
    {Fld(s, s, 16, 0) : s \in {"focus", "iris", "zoom"}}
    \cup {Fld(s, s, 1, 0) : s \in {"focus auto", "privacy"}}
    \cup {Fld("iris rel", "iris rel", 8, 0), Fld("zoom rel", "zoom rel", 0, 0),
          Fld("pan", "pantilt", 32, 0), Fld("tilt", "pantilt", 32, 32),
          Fld("pan speed", "pantilt rel", 16, 0), Fld("tilt speed", "pantilt rel", 16, 16)}
-----------------------------------------------------------------------------
(* Reading and writing                                                     *)

First(f) == f.bit \div 8     \* the first byte of the field
Low(f) == f.bit % 8          \* where the field starts in it

\* Bits of the field that are left at its byte i.
Bits(f, i) == IF i = 0 THEN f.size ELSE f.size - (8 * i - Low(f))
FieldBytes(f) == {i \in 0 .. 4 : Bits(f, i) > 0}
\* Of those, the ones in byte i.
Width(f, i) == Min({Bits(f, i), IF i = 0 THEN 8 - Low(f) ELSE 8})

\* __vc_le_value_get: the parts of each byte put together, with the sign.
LeGet(f, d) ==
    LET part(i) ==
            IF i = 0 THEN (d[First(f)] \div 2 ^ Low(f)) % 2 ^ Width(f, 0)
            ELSE (d[First(f) + i] % 2 ^ Width(f, i)) * 2 ^ (8 * i - Low(f))
        v == MapThenSumSet(part, FieldBytes(f))
    IN IF f.signed /\ v >= 2 ^ (f.size - 1) THEN v - 2 ^ f.size ELSE v

\* What is left of the value at byte i: after the first byte it is shifted by the
\* bit the field starts at, not by the bits written.
Left(f, v, i) ==
    IF i = 0 THEN v ELSE v \div 2 ^ (IF Low(f) = 0 THEN 8 * i ELSE Low(f) + 8 * (i - 1))

\* Mutant of LeSet: the other fields of a byte are not kept.
LeSetAlone(f, v, d) ==
    LET val == IF f.button THEN -1 ELSE v
        low(i) == IF i = 0 THEN Low(f) ELSE 0
    IN [j \in DOMAIN d |->
          LET i == j - First(f)
          IN IF i \in FieldBytes(f) THEN (Left(f, val, i) % 2 ^ Width(f, i)) * 2 ^ low(i)
             ELSE d[j]]

\* __vc_le_value_set
LeSet(f, v, d) ==
    LET val == IF f.button THEN -1 ELSE v
        low(i) == IF i = 0 THEN Low(f) ELSE 0
        kept(i, b) == b - ((b \div 2 ^ low(i)) % 2 ^ Width(f, i)) * 2 ^ low(i)
    IN [j \in DOMAIN d |->
          LET i == j - First(f)
          IN IF i \in FieldBytes(f)
             THEN kept(i, d[j]) + (Left(f, val, i) % 2 ^ Width(f, i)) * 2 ^ low(i)
             ELSE d[j]]

Magnitude(v) == Min({IF v < 0 THEN -v ELSE v, 255})
SignByte(v) == IF v = 0 THEN 0 ELSE IF v > 0 THEN 1 ELSE 255
\* A char is signed here: 255 is -1.
Directed(sign, n) == IF sign = 0 THEN 0 ELSE IF sign < 128 THEN n ELSE -n

\* __vc_ctrl_zoom_get and set: a direction in byte 0, a speed in byte 2.
ZoomGet(d) == Directed(d[0], d[2])
ZoomSet(v, d) == [d EXCEPT ![0] = SignByte(v), ![2] = Magnitude(v)]

\* __vc_ctrl_rel_speed_get and set: a direction and a speed from the first byte on.
SpeedGet(f, d) == Directed(d[First(f)], d[First(f) + 1])
SpeedSet(f, v, d) == [d EXCEPT ![First(f)] = SignByte(v), ![First(f) + 1] = Magnitude(v)]

Get(f, d) ==
    CASE f.how = "le" -> LeGet(f, d) [] f.how = "zoom" -> ZoomGet(d)
      [] f.how = "speed" -> SpeedGet(f, d)

Init ==
    /\ field \in [how : {"le", "zoom", "speed"}, size : Sizes, bit : Offsets,
                  signed : BOOLEAN, button : BOOLEAN]
    /\ field.how = "zoom" => field.bit = 0 /\ field.size = 1
    /\ field.how = "speed" => field.bit % 8 = 0 /\ field.size = 16
    /\ data \in {[i \in 0 .. 3 |-> b] : b \in Fills} /\ orig = data /\ value \in Values /\ done = FALSE

\* p_fn_set of the mapping, as usbh_vc_chain_ctrl_set calls it.
Set ==
    /\ ~done /\ done' = TRUE
    /\ data' = CASE field.how = "le" -> LeSet(field, value, data)
                 [] field.how = "zoom" -> ZoomSet(value, data)
                 [] field.how = "speed" -> SpeedSet(field, value, data)
    /\ UNCHANGED <<field, orig, value>>

Next == Set

Spec == Init /\ [][Next]_fieldVars
-----------------------------------------------------------------------------
(* Properties                                                              *)

TypeOK == done \in BOOLEAN /\ \A i \in DOMAIN data : data[i] \in 0 .. 255

\* The value is one the field can hold.
Holds(f, v) ==
    IF f.how # "le" THEN Magnitude(v) \in {v, -v}
    ELSE IF f.signed THEN -(2 ^ (f.size - 1)) <= v /\ v < 2 ^ (f.size - 1)
    ELSE 0 <= v /\ v < 2 ^ f.size
\* The field is written whole: it starts at a byte or in the middle of one, or ends
\* in the byte it starts in (Left).
Whole(f) == Low(f) \in {0, 4} \/ Low(f) + f.size <= 8

\* A value that is set is read back, and a button is pressed with all its bits
\* (usbh_vc_ctrl.c:887, :918, :935, :941-992).
RoundTrip ==
    done /\ Whole(field) =>
        IF field.how = "le" /\ field.button
        THEN Get([field EXCEPT !.signed = TRUE], data) = -1
        ELSE Holds(field, value) => Get(field, data) = value

\* Bit b of the bytes d.
BitOf(d, b) == (d[b \div 8] \div 2 ^ (b % 8)) % 2
\* A field that is set leaves the other bits of its control alone: pan and tilt,
\* blue and red share one (usbh_vc_ctrl.c:934).
OthersKept ==
    done /\ field.how = "le" =>
        \A b \in 0 .. 8 * Cardinality(DOMAIN data) - 1 :
            b \notin field.bit .. field.bit + field.size - 1 => BitOf(data, b) = BitOf(orig, b)

\* The tables agree: a bit and a selector name one control, each field lies in
\* the bytes of its control apart from the others, and can be written whole.
TablesAgree ==
    \A t \in {<<ProcessingInfo, ProcessingMaps \cup WhiteBalanceMaps>>,
               <<CameraInfo, CameraMaps \cup ExposureMaps>>} :
        LET infos == t[1]  maps == t[2]
        IN /\ \A a, b \in infos : a[1] = b[1] \/ a[2] = b[2] => a = b
           /\ \A m \in maps : \E c \in infos :
                 c[2] = m.sel /\ m.bit + m.size <= 8 * c[3] /\ Whole(m)
           /\ \A m, n \in maps : m # n /\ m.sel = n.sel =>
                 m.bit + m.size <= n.bit \/ n.bit + n.size <= m.bit
=============================================================================
