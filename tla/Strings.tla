--------------------------------- MODULE Strings ---------------------------------
(***************************************************************************)
(* lib/string.c: the functions that write to memory.  Copies are made byte *)
(* by byte, and their order matters when the blocks overlap.               *)
(***************************************************************************)
EXTENDS Integers, Sequences, SequencesExt, FiniteSetsExt

CONSTANTS
  Size,      \* bytes of memory
  Char,      \* their values; 0 ends a string
  NONE

VARIABLES
  mem, before,      \* memory now and before the call
  call,             \* the call that has been made, or NONE
  ret,              \* what it returned
  save_ptr, tokens  \* of a sequence of calls of strtok_r

vars == <<mem, before, call, ret, save_ptr, tokens>>

Byte == 0..(Size - 1)

Init ==
  /\ mem \in [Byte -> Char] /\ before = mem
  /\ call = NONE /\ ret = NONE /\ save_ptr = NONE /\ tokens = <<>>

(* A string begins at p. *)
String(m, p) == p \in Byte /\ \E k \in p..(Size - 1) : m[k] = 0
strlen(m, p) == Min({k \in p..(Size - 1) : m[k] = 0}) - p
Apart(a, n, c, k) == a + n <= c \/ c + k <= a

Copy(m, dst, src, offsets) == FoldLeft(LAMBDA acc, k : [acc EXCEPT ![dst + k] = acc[src + k]], m, offsets)
Upwards(n) == [k \in 1..n |-> k - 1]

memcpy(m, dst, src, n) == Copy(m, dst, src, Upwards(n))

(* The pointer that is returned has moved with the copying. *)
memmove(m, dst, src, n) ==
  IF dst < src THEN [mem |-> Copy(m, dst, src, Upwards(n)), ret |-> dst + n]
  ELSE [mem |-> Copy(m, dst, src, Reverse(Upwards(n))), ret |-> dst]

strlcpy(m, dst, src, size) ==
  LET len == strlen(m, src)
      n == Min({size - 1, len})
  IN [mem |-> IF size = 0 THEN m ELSE [memcpy(m, dst, src, n) EXCEPT ![dst + n] = 0], ret |-> len]

strlcat(m, dst, src, size) ==
  LET src_len == strlen(m, src)
      dst_len == strlen(m, dst)
      n == Min({size - dst_len - 1, src_len})
  IN [mem |-> IF size = 0 \/ dst_len >= size THEN m
              ELSE [memcpy(m, dst + dst_len, src, n) EXCEPT ![dst + dst_len + n] = 0],
      ret |-> src_len + dst_len]

(* A null byte is found among the delimiters, as strchr does. *)
Delimits(delimiters, c) == c = 0 \/ c \in delimiters

strtok_r(m, s, delimiters) ==
  LET token == Min({k \in s..(Size - 1) : m[k] = 0 \/ ~Delimits(delimiters, m[k])})
      end == Min({k \in token..(Size - 1) : Delimits(delimiters, m[k])})
  IN IF m[token] = 0 THEN [mem |-> m, ret |-> NONE, save |-> token]
     ELSE IF m[end] # 0 THEN [mem |-> [m EXCEPT ![end] = 0], ret |-> token, save |-> end + 1]
     ELSE [mem |-> m, ret |-> token, save |-> end]

-----------------------------------------------------------------------------
Called(c, result) ==
  /\ call' = c /\ mem' = result.mem /\ ret' = result.ret
  /\ UNCHANGED <<before, save_ptr, tokens>>

Move(dst, src, n) ==
  /\ call = NONE /\ dst + n <= Size /\ src + n <= Size
  /\ Called([name |-> "memmove", dst |-> dst, src |-> src, size |-> n], memmove(mem, dst, src, n))

(* The callers own size bytes, which do not overlap with the source. *)
CopyString(dst, src, n) ==
  /\ call = NONE /\ String(mem, src) /\ dst + n <= Size /\ Apart(dst, n, src, strlen(mem, src) + 1)
  /\ Called([name |-> "strlcpy", dst |-> dst, src |-> src, size |-> n], strlcpy(mem, dst, src, n))

Concatenate(dst, src, n) ==
  /\ call = NONE /\ String(mem, src) /\ String(mem, dst) /\ dst + n <= Size
  /\ Apart(dst, Max({n, strlen(mem, dst) + 1}), src, strlen(mem, src) + 1)
  /\ Called([name |-> "strlcat", dst |-> dst, src |-> src, size |-> n], strlcat(mem, dst, src, n))

(* for (token = strtok_r (s, ...); token; token = strtok_r (NULL, ...)) *)
Tokenize(s, delimiters) ==
  /\ \/ call = NONE /\ String(mem, s) /\ call' = [name |-> "strtok_r", src |-> s, delimiters |-> delimiters]
     \/ call # NONE /\ call.name = "strtok_r" /\ ret # NONE /\ s = save_ptr /\ delimiters = call.delimiters
        /\ UNCHANGED call
  /\ LET r == strtok_r(mem, s, delimiters) IN
     /\ mem' = r.mem /\ ret' = r.ret /\ save_ptr' = r.save
     /\ tokens' = IF r.ret = NONE THEN tokens ELSE Append(tokens, r.ret)
  /\ UNCHANGED before

Next ==
  \/ \E dst, src \in Byte, n \in 0..Size : Move(dst, src, n) \/ CopyString(dst, src, n) \/ Concatenate(dst, src, n)
  \/ \E s \in Byte, delimiters \in SUBSET (Char \ {0}) : Tokenize(s, delimiters)

Spec == Init /\ [][Next]_vars

-----------------------------------------------------------------------------
Made(name) == call # NONE /\ call.name = name

(* "which are allowed to overlap" (memmove): the destination is what the   *)
(* source was, and nothing else changes.                                   *)
MoveExact ==
  Made("memmove") =>
    mem = [k \in Byte |-> IF k \in call.dst..(call.dst + call.size - 1) THEN before[call.src + (k - call.dst)] ELSE before[k]]

(* "only SIZE - 1 characters are copied.  A null terminator is always      *)
(* written to DST" (strlcpy) and "limited to SIZE - 1 characters"          *)
(* (strlcat): DST is a string, as much as there is room for, SIZE bytes    *)
(* are all that changes, and the result tells whether something was cut.   *)
Contents(m, p) == [k \in 1..strlen(m, p) |-> m[p + k - 1]]
CopiesLimited ==
  (Made("strlcpy") \/ Made("strlcat")) =>
    LET prior == IF Made("strlcat") THEN Contents(before, call.dst) ELSE <<>>
        full == prior \o Contents(before, call.src)
    IN /\ \A k \in Byte \ call.dst..(call.dst + call.size - 1) : mem[k] = before[k]
       /\ ret = Len(full)
       /\ Len(prior) < call.size =>
            Contents(mem, call.dst) = SubSeq(full, 1, Min({call.size - 1, Len(full)}))

(* "treats multiple adjacent delimiters as a single delimiter.  The        *)
(* returned tokens will never be length 0" (strtok_r): the tokens are the  *)
(* runs of other characters, in order, and they are strings in the end.    *)
Words(m, p, delimiters) ==
  {<<i, j>> \in (p..(Size - 1)) \X (p..(Size - 1)) :
     /\ i < j /\ j <= p + strlen(m, p)
     /\ \A k \in i..(j - 1) : ~Delimits(delimiters, m[k])
     /\ i = p \/ Delimits(delimiters, m[i - 1])
     /\ Delimits(delimiters, m[j])}
TokensExact ==
  (Made("strtok_r") /\ ret = NONE) =>
    /\ {<<tokens[k], tokens[k] + strlen(mem, tokens[k])>> : k \in DOMAIN tokens} = Words(before, call.src, call.delimiters)
    /\ \A k \in 2..Len(tokens) : tokens[k - 1] < tokens[k]

(* "Returns DST" (memmove). *)
MoveReturnsDst == Made("memmove") => ret = call.dst
=============================================================================
