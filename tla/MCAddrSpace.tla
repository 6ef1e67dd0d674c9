------------------------------- MODULE MCAddrSpace ------------------------------
\* Read-only data that is missing, ends on its first page, at a page's end, and
\* after whole pages; data that shares its page or starts one.
EXTENDS AddrSpace

Sizes(c, r, d, b) == [code |-> c, rdata |-> r, data |-> d, bss |-> b]

MCLayout ==
  {Sizes(1, 0, 0, 0), Sizes(4, 0, 2, 0), Sizes(1, 1, 2, 0), Sizes(3, 1, 0, 1),
   Sizes(1, 5, 0, 1), Sizes(3, 3, 2, 1), Sizes(4, 6, 2, 0)}
===============================================================================
