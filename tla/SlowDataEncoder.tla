-------------------------- MODULE SlowDataEncoder --------------------------
(***************************************************************************)
(* Text messages in slow data: src/SlowDataEncoder.cpp, and the frames in  *)
(* which CGroupHandler::sendAck sends one.  A text is kept as its name and *)
(* length; its characters are known by text and place.  Exclusive or with  *)
(* the scrambler byte of a place is undone only by that of the same place. *)
(***************************************************************************)
EXTENDS Naturals

CONSTANTS Texts, Length     \* the texts, and the length of each

Full == 60          \* SLOW_DATA_FULL_BLOCK_SIZE
Padded == 20

ASSUME TextAssumption == Length \in [Texts -> 0..Padded]

CharAt(text, i) == IF i < Length[text] THEN <<text, i>> ELSE <<"space">>
Filler == <<"f">>
Type(n) == <<"type", n>>

\* setTextData(): four blocks of a type byte and five characters.
Mut_setTextData(text) ==    \* six characters for each block
    [k \in 0 .. Full - 1 |->
        IF k >= 24 THEN Filler
        ELSE IF k % 6 = 0 THEN Type(k \div 6) ELSE CharAt(text, 6 * (k \div 6) + (k % 6) - 1)]
setTextData(text) ==
    [k \in 0 .. Full - 1 |->
        IF k >= 24 THEN Filler
        ELSE IF k % 6 = 0 THEN Type(k \div 6) ELSE CharAt(text, 5 * (k \div 6) + (k % 6) - 1)]

Scrambled(byte, lane) == [lane |-> lane, byte |-> byte]

\* getTextData(), the n-th call for a text, whose pointer starts again at the end.
getTextData(data, n) == [lane \in 1..3 |-> Scrambled(data[(3 * (n - 1) + lane - 1) % Full], lane)]

\* The frames of sendAck by their number: 0 is the sync, 19 the end.
AckFrames(text) ==
    [seq \in 0..19 |->
        IF seq = 0 THEN "sync" ELSE IF seq = 19 THEN "end" ELSE getTextData(setTextData(text), seq)]
-----------------------------------------------------------------------------
(***************************************************************************)
(* A receiver, which is not part of the program: after the sync, two       *)
(* frames are a block; it needs both of them, and descrambles each byte by *)
(* its place.  What it has not got it shows as blank.                      *)
(***************************************************************************)
Blank == <<"blank">>
Block(frames, b) == [k \in 0..5 |-> frames[2 * b + 1 + k \div 3][(k % 3) + 1]]
Clear(block) == [k \in 0..5 |-> IF block[k].lane = (k % 3) + 1 THEN block[k].byte ELSE <<"noise">>]
BlocksHeard(heard) == {b \in 0..8 : {2 * b + 1, 2 * b + 2} \subseteq heard}

Shown(frames, heard) ==
    LET blocks == {Clear(Block(frames, b)) : b \in BlocksHeard(heard)}
        Puts(n) == {block \in blocks : block[0] = Type(n)}
    IN  [i \in 0 .. Padded - 1 |->
            IF Puts(i \div 5) = {} THEN Blank
            ELSE (CHOOSE block \in Puts(i \div 5) : TRUE)[(i % 5) + 1]]
=============================================================================
