-------------------------------- MODULE MCM61 --------------------------------
(* Model-checking instance of M61: a 6-bit size_t, a 5-bit int and three  *)
(* system chunks.                                                          *)
EXTENDS M61, TLC

\* Sizes: empty, small, and one whose (int) cast is negative
MC_Sizes == {0, 1, 48}

\* calloc arguments: a small array, a product that wraps and is caught,
\* and one that wraps to a value at least nmemb (2 * 33 = 66 = 2 mod 64)
MC_CallocArgs == {<<2, 1>>, <<3, 22>>, <<2, 33>>}

\* Two call sites in one source file whose string lies at an address with
\* the low 32 bits 0x9a3c2010, negative as an int (as in a PIE build).
\* Lines 26 and 43 both hash to bucket 783, so the second site's entry is
\* chained behind the first's.
MC_Sites == {<<W32(39484, 8208), 26>>, <<W32(39484, 8208), 43>>}
=============================================================================
