-------------------------------- MODULE String ---------------------------------
(***************************************************************************)
(* Util::string: a buffer, the length, which counts the terminator, and    *)
(* the capacity.  operator new[] is seen through its promise: any buffer   *)
(* that is not in use, with room for what was asked for.                   *)
(***************************************************************************)
EXTENDS Integers, Sequences, HeapBuffers

CONSTANTS
  Strings,
  Letters,     \* characters but the terminator
  Literals,    \* the texts of C strings
  Garbage,     \* what _cap can be when the constructor leaves it
  MaxLength    \* bound on the length of a string

Terminator == "NUL"
Unwritten == "raw"    \* memory that was never written

ASSUME StringAssumption ==
  /\ Terminator \notin Letters /\ Literals \subseteq Seq(Letters)
  /\ Garbage \subseteq Nat /\ MaxLength \in Nat

Running == "running"

VARIABLES
  str,         \* buf, _length and _cap of each string that exists, or Gone
  characters,  \* the characters of the buffers that operator new[] gave out
  status       \* Running, "astray": a copy went through nullptr or ran on, or
               \* "unterminated"; what happens then is not followed

stringVars == <<str, characters, status>>

Gone == [buf |-> NoBuffer, length |-> 0, cap |-> -1]

Exists(s) == str[s] # Gone

Cstr(text) == Append(text, Terminator)

(* The bytes a string's length covers.                                     *)
Bytes(s) == IF str[s].length = 0 THEN << >> ELSE SubSeq(characters[str[s].buf], 1, str[s].length)

-------------------------------------------------------------------------------
(* memcpy of the source to an offset of a buffer.                          *)
Written(buffer, offset, source) ==
  [i \in DOMAIN buffer |->
     IF i - offset \in DOMAIN source THEN source[i - offset] ELSE buffer[i]]

Fresh(n) == [i \in 1 .. n |-> Unwritten]

Stored(mem, b, bytes) == [x \in DOMAIN mem \union {b} |-> IF x = b THEN bytes ELSE mem[x]]

Released(b) == [x \in DOMAIN characters \ {b} |-> characters[x]]

Become(s, b, length, cap) == str' = [str EXCEPT ![s] = [buf |-> b, length |-> length, cap |-> cap]]

(* Both constructors that copy take a buffer that just holds the bytes.    *)
Construct(s, bytes) ==
  /\ status = Running /\ ~Exists(s)
  /\ \E b \in Buffers \ DOMAIN characters :
       characters' = Stored(characters, b, bytes) /\ Become(s, b, Len(bytes), Len(bytes))
  /\ UNCHANGED status

FromLiteral(s, t) == Construct(s, Cstr(t))

FromString(s, r) == Exists(r) /\ Construct(s, Bytes(r))

(* string(): _cap is what the memory held before.                          *)
Default(s) ==
  /\ status = Running /\ ~Exists(s)
  /\ \E cap \in Garbage : Become(s, NoBuffer, 0, cap)
  /\ UNCHANGED <<characters, status>>

Destroy(s) ==
  /\ status = Running /\ Exists(s)
  /\ str' = [str EXCEPT ![s] = Gone]
  /\ characters' = Released(str[s].buf)
  /\ UNCHANGED status

TooSmall(s, length) == str[s].cap < length

(* operator=, also for the temporary an assigned literal is made to.       *)
Assign(s, r) ==
  /\ status = Running /\ Exists(s) /\ Exists(r) /\ s # r
  /\ LET bytes == Bytes(r)
     IN  IF TooSmall(s, Len(bytes))
         THEN /\ \E b \in Buffers \ DOMAIN Released(str[s].buf) :
                   characters' = Stored(Released(str[s].buf), b, bytes) /\ Become(s, b, Len(bytes), Len(bytes))
              /\ UNCHANGED status
         ELSE IF str[s].buf = NoBuffer /\ bytes # << >>
         THEN status' = "astray" /\ UNCHANGED <<str, characters>>
         ELSE /\ characters' = IF bytes = << >> THEN characters
                           ELSE [characters EXCEPT ![str[s].buf] = Written(@, 0, bytes)]
              /\ str' = [str EXCEPT ![s].length = Len(bytes)]
              /\ UNCHANGED status

(* Mutant: the text is copied behind the terminator.                       *)
BehindTerminator(s) == str[s].length

Behind(s) == str[s].length - 1

NewCapacity(s, bytes) == str[s].cap * 2 + Len(bytes)

(* A string added to itself within its buffer: the copy begins with the    *)
(* byte that replaces the terminator, and reads that byte again at its end.*)
AddsToItself(s, r) ==
  s = r /\ str[s].length > 0 /\ ~TooSmall(s, 2 * str[s].length)

(* operator+ changes its left operand.  A new buffer replaces the old one, *)
(* which nobody deletes.  Without a buffer the length - 1 wraps; a right   *)
(* operand without a buffer takes the terminator away.                     *)
Extend(s, bytes) ==
  /\ status = Running /\ Exists(s)
  /\ str[s].length + Len(bytes) <= MaxLength
  /\ status' = IF str[s].length = 0 THEN "astray"
               ELSE IF bytes = << >> THEN "unterminated" ELSE Running
  /\ IF str[s].length = 0 THEN UNCHANGED <<str, characters>>
     ELSE IF TooSmall(s, str[s].length + Len(bytes))
     THEN \E b \in Buffers \ DOMAIN characters :
            /\ characters' = Stored(characters, b,
                 Written(Written(Fresh(NewCapacity(s, bytes)), 0, SubSeq(Bytes(s), 1, Behind(s))),
                         Behind(s), bytes))
            /\ Become(s, b, str[s].length + Len(bytes) - 1, NewCapacity(s, bytes))
     ELSE /\ characters' = [characters EXCEPT ![str[s].buf] = Written(@, Behind(s), bytes)]
          /\ str' = [str EXCEPT ![s].length = @ + Len(bytes) - 1]

ExtendLiteral(s, t) == Extend(s, Cstr(t))

ExtendString(s, r) == Exists(r) /\ ~AddsToItself(s, r) /\ Extend(s, Bytes(r))

ExtendByItself(s) ==
  /\ status = Running /\ AddsToItself(s, s) /\ 2 * str[s].length \in 1 .. MaxLength
  /\ characters' = [characters EXCEPT ![str[s].buf] =
                  Written(Written(@, Behind(s), Bytes(s)), 2 * Behind(s), <<Bytes(s)[1]>>)]
  /\ str' = [str EXCEPT ![s].length = 2 * @ - 1]
  /\ status' = IF str[s].length = 1 THEN Running ELSE "unterminated"

(* Mutant: operator== that leaves the last byte out.                       *)
ComparedButLast(s, r) == 1 .. (IF str[s].length < str[r].length THEN str[s].length ELSE str[r].length) - 1

(* operator== compares as many bytes as the shorter string has.            *)
Compared(s, r) == 1 .. IF str[s].length < str[r].length THEN str[s].length ELSE str[r].length

Equal(s, r) == \A i \in Compared(s, r) : Bytes(s)[i] = Bytes(r)[i]

-------------------------------------------------------------------------------
StringsInit == str = [s \in Strings |-> Gone] /\ characters = << >> /\ status = Running

StringsNext ==
  \E s \in Strings :
    \/ \E t \in Literals : FromLiteral(s, t) \/ ExtendLiteral(s, t)
    \/ \E r \in Strings : FromString(s, r) \/ Assign(s, r) \/ ExtendString(s, r)
    \/ Default(s) \/ Destroy(s) \/ ExtendByItself(s)

StringsSpec == StringsInit /\ [][StringsNext]_stringVars

-------------------------------------------------------------------------------
(* Types, and what keeps every copy inside of its buffer: _cap is what the *)
(* buffer has room for and the length is at most that (string.cpp:29, 48). *)
StringsTypeOK ==
  /\ status \in {Running, "astray", "unterminated"}
  /\ DOMAIN characters \subseteq Buffers
  /\ \A s \in Strings :
       \/ str[s].buf = NoBuffer /\ str[s].length = 0
       \/ /\ str[s].buf \in DOMAIN characters
          /\ str[s].cap = Len(characters[str[s].buf])
          /\ str[s].length \in 0 .. str[s].cap

(* No two strings share a buffer: changing or destroying one leaves the    *)
(* other alone (string.cpp:5, 19-37).                                      *)
StringsApart ==
  \A s, r \in Strings : s # r /\ str[s].buf = str[r].buf => str[s].buf = NoBuffer

(* A string with a length ends with its only terminator, until operator+   *)
(* gets an operand without a buffer or adds a string to itself in place    *)
(* (string.cpp:45-62; "now null terminator of whole string", 51).          *)
Terminated ==
  status = Running => \A s \in Strings : str[s].length > 0 =>
    \A i \in 1 .. str[s].length : Bytes(s)[i] = Terminator <=> i = str[s].length

Text(s) == SubSeq(Bytes(s), 1, str[s].length - 1)

(* Though operator== only looks at the length of the shorter string, it    *)
(* tells apart any two texts, as long as both were given one.              *)
EqualMeansSameText ==
  status = Running => \A s, r \in Strings :
    str[s].length > 0 /\ str[r].length > 0 => (Equal(s, r) <=> Text(s) = Text(r))

(* No string's buffer is another's or smaller than _cap, each text ends at *)
(* its terminator, and so operator==, which looks no further than the      *)
(* shorter string, is equality of texts (string.cpp:4-86).                 *)
EqualIsSameText ==
  StringsTypeOK /\ StringsApart /\ Terminated /\ EqualMeansSameText

(* Through copies, assignments in place or not, and growing, a string has  *)
(* the text it was given, until one of the failures of status.             *)
AbstractTexts == INSTANCE Texts WITH text <- [s \in Strings |-> Text(s)]

RefinesTexts == AbstractTexts!Init /\ [][status' = Running => AbstractTexts!Next]_stringVars

===============================================================================
