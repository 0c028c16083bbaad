-------------------------------- MODULE Sizes --------------------------------
(* The size arithmetic of the enclave's allocator                          *)
(* (stages-inside-enclave/Enclave/Enclave.cpp).                            *)
EXTENDS Integers

CONSTANT SIZE_MAX  \* largest size_t

(* The two constants of the code: the allocator's granule and the size of  *)
(* struct Block {size_t size; bool free; Block* next;} on x86-64.          *)
ALIGNMENT == 16
SIZEOF_BLOCK == 24

(* Variant: rounding down.                                                 *)
AlignUp_Down(n) == n - (n % ALIGNMENT)

(* Rounding up to a multiple of ALIGNMENT in size_t arithmetic: the sum    *)
(* wraps, the mask clears the low bits.                                    *)
AlignUp(n) ==
  LET sum == (n + ALIGNMENT - 1) % (SIZE_MAX + 1)
  IN  sum - (sum % ALIGNMENT)

BLOCK_SIZE == AlignUp(SIZEOF_BLOCK)
==============================================================================
