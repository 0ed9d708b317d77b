---------------------------- MODULE MCSerialization ----------------------------
(* Constants of Serialization for TLC. *)
EXTENDS Serialization

\* Integers whose bytes all differ, so that each order of them is another number.
Run(from, size) == [i \in 1 .. size |-> (from + i) % 256]

Mapped(from) == Zeros(10) \o <<255, 255>> \o Run(from, 4)

\* A version message of another program.
PeerPayload(version, agent) ==
  [f \in Field |->
    CASE f = "version" -> Word32(version)
      [] f \in {"meIp", "youIp"} -> Mapped(10)
      [] f = "user_agent" -> Run(0, agent)
      [] f = "relay" -> <<1>>
      [] OTHER -> Run(250, Size[f])]

MCPayloads ==
  {PeerPayload(version, agent) :
     version \in {105, 106, 70000, 70001}, agent \in {0, 1, 252, 253, 300}}
    \cup {[PeerPayload(0, 1) EXCEPT !["version"] = version] :
            version \in {<<255, 255, 255, 127>>, <<0, 0, 0, 128>>, <<255, 255, 255, 255>>}}
    \cup {PeerPayload(70001, 65536),
          OwnPayload(Word32(70001), Run(30, 8), [ip |-> Mapped(20), port |-> <<1, 2>>],
                     [ip |-> Mapped(40), port |-> <<141, 32>>], Run(46, 16))}

MCNames ==
  [version |-> <<118, 101, 114, 115, 105, 111, 110>> \o Zeros(5),
   nonce   |-> <<112, 111, 110, 103>> \o Zeros(8),
   verack  |-> <<118, 101, 114, 97, 99, 107>> \o Zeros(6)]

MCMagic == <<249, 190, 180, 217>>
MCHash == <<1, 2, 3, 4>>
MCLeftovers == {<<>>, Run(7, 30)}
MCFollowings == {<<>>, Run(90, 9)}

\* Shorter, longer than what follows, not canonical, and too large.
MCOtherSizes ==
  {<<0>>, <<253, 44, 2>>, <<253, 1, 0>>, <<254, 255, 255, 0, 0>>,
   <<254, 1, 0, 0, 2>>, <<255>> \o Zeros(8)}
===============================================================================
