------------------------------- MODULE Layout -------------------------------
(***************************************************************************)
(* The address arithmetic and the byte encoding of src/src/dcasm.c, as      *)
(* operators: what an order does to g_adr, and the bytes putOne stores.     *)
(***************************************************************************)
EXTENDS Integers, Sequences

(* The size code md of dc.<b|w|l|q> and ds.<b|w|l|q>.                       *)
Mds == 0..3
Size(md) == CASE md = 0 -> 1 [] md = 1 -> 2 [] md = 2 -> 4 [] md = 3 -> 8

(* The rounding of gen_align, autoalign2, autoalign4 and autoalign8.        *)
AlignUp(adr, n) == ((adr + n - 1) \div n) * n

(* autoalign2/4/8, called for md = 1, 2, 3: the boundary autoAlignMode      *)
(* allows, never more than the size of the datum.                           *)
AutoAlign(adr, md, mode) ==
  IF md = 0 \/ mode = 0 THEN adr
  ELSE AlignUp(adr, Size(IF mode < md THEN mode ELSE md))

(* gen_ds.  The switch has no case for md = 3 (its last case is 8), so ds.q *)
(* leaves g_adr alone.                                                      *)
GenDs(adr, n, md, mode) ==
  IF n < 0 \/ md = 3 THEN adr
  ELSE AutoAlign(adr, md, mode) + n * Size(md)

MaxAlign == 1048576

GenAlign(adr, n) == AlignUp(adr, IF n \in 1..MaxAlign THEN n ELSE 1)

GenOrg(adr, n) == IF adr > n THEN adr ELSE n

(* Mutant: the argument itself becomes the mode.                            *)
GenAutoAlignBytes(n, mode) == IF n \in {0, 2, 4, 8} THEN n ELSE mode

(* gen_autoAlign: the new mode, the old one if n is not 0, 2, 4 or 8.       *)
GenAutoAlign(n, mode) ==
  CASE n = 0 -> 0 [] n = 2 -> 1 [] n = 4 -> 2 [] n = 8 -> 3 [] OTHER -> mode

(* v shifted right by i bytes, arithmetically.                              *)
Shr(v, i) ==
  LET shr[k \in 0..8] == IF k = 0 THEN v ELSE shr[k - 1] \div 256
  IN  shr[i]

(* The bytes POKEiW/POKEmW, POKEiD/POKEmD and POKEiQ/POKEmQ store for v in  *)
(* n bytes; endian 0 is little.                                             *)
Bytes(v, n, endian) ==
  [i \in 1..n |-> Shr(v, IF endian = 0 THEN i - 1 ELSE n - i) % 256]

(* Mutant: only values too large are reported.                              *)
InRangeAbove(v, md) == md = 3 \/ Shr(v, Size(md)) \in {0, -1}

(* putOne accepts v without a message: it lies in -2^(8n-1) .. 2^(8n)-1     *)
(* with n = Size(md).  8-byte data are never reported.                      *)
InRange(v, md) ==
  LET n == Size(md)
  IN  \/ md = 3
      \/ Shr(v, n) = 0
      \/ Shr(v, n) = -1 /\ Shr(v, n - 1) % 256 >= 128
=============================================================================
