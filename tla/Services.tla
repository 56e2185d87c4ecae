------------------------------ MODULE Services ------------------------------
(***************************************************************************)
(* services.h, generated by nRFgo Studio from the description of the GATT  *)
(* services: the type of every pipe, which the program is compiled with,   *)
(* and the setup messages, which the nRF8001 is told.                      *)
(***************************************************************************)
EXTENDS Integers, SequencesExt

(* The types of pipes 1..NUMBER_OF_PIPES; all are stored locally.          *)
services_pipe_type_mapping ==
    LET Local(type) == [location |-> "LOCAL", type |-> type]
    IN  << Local("SET"), Local("TX_ACK"), Local("SET"), Local("SET"), Local("SET"),
           Local("SET"), Local("SET"), Local("RX"), Local("TX"), Local("RX_ACK_AUTO"),
           Local("RX"), Local("TX"), Local("TX"), Local("RX"), Local("SET") >>

(* The setup messages, <<length byte, address>> each: the length counts    *)
(* the opcode, the two bytes of the address, and the data for it.          *)
SetupOfServices ==
    << <<\h07, \h0000>>,
       <<\h1f, \h1000>>, <<\h1f, \h101c>>, <<\h1f, \h1038>>, <<\h05, \h1054>>,
       <<\h1f, \h2000>>, <<\h1f, \h201c>>, <<\h1f, \h2038>>, <<\h1f, \h2054>>,
       <<\h1f, \h2070>>, <<\h1f, \h208c>>, <<\h1f, \h20a8>>, <<\h1f, \h20c4>>,
       <<\h1f, \h20e0>>, <<\h1f, \h20fc>>, <<\h1f, \h2118>>, <<\h1f, \h2134>>,
       <<\h1f, \h2150>>, <<\h1f, \h216c>>, <<\h1f, \h2188>>, <<\h1f, \h21a4>>,
       <<\h1f, \h21c0>>, <<\h1f, \h21dc>>, <<\h1f, \h21f8>>, <<\h1f, \h2214>> >>

(* MUTANT: a message has been lost from the table.                         *)
SetupOfPipesWithoutOne ==
    << <<\h1f, \h2230>>, <<\h1f, \h224c>>, <<\h1f, \h2284>>,
       <<\h1f, \h22a0>>, <<\h15, \h22bc>>, <<\h1f, \h4000>>, <<\h06, \hf000>> >>

SetupOfPipes ==
    << <<\h1f, \h2230>>, <<\h1f, \h224c>>, <<\h1f, \h2268>>, <<\h1f, \h2284>>,
       <<\h1f, \h22a0>>, <<\h15, \h22bc>>,
       <<\h1f, \h4000>>, <<\h1f, \h401c>>, <<\h1f, \h4038>>, <<\h1f, \h4054>>,
       <<\h15, \h4070>>, <<\h1f, \h5000>>, <<\h07, \h501c>>, <<\h1f, \h6000>>,
       <<\h0e, \h601c>>, <<\h19, \h7000>>, <<\h06, \hf000>> >>

setup_msgs == SetupOfServices \o SetupOfPipes
NB_SETUP_MESSAGES == 42

(* The types told with the messages from 0x4000 on, ten bytes for every    *)
(* characteristic: bits of aci_pipe_type_t, each a pipe of its own.        *)
CharacteristicTypes ==
    << {"SET"}, {"TX_ACK"}, {"SET"}, {"SET"}, {"SET"}, {"SET"}, {"SET"}, {"RX"},
       {"TX", "RX_ACK_AUTO"}, {"RX"}, {"TX"}, {"TX", "RX"}, {"SET"} >>

(* The pipes of a characteristic are numbered in the order of their bits.  *)
aci_pipe_type_t == <<"TX", "TX_ACK", "RX", "SET", "RX_ACK_AUTO">>
PipesOf(types) == SelectSeq(aci_pipe_type_t, LAMBDA t : t \in types)

-----------------------------------------------------------------------------
DataLength(m) == m[1] - 3
Block(m) == m[2] \div \h1000

(* A message of a block continues where the one before it ended; a block   *)
(* begins at its first address, after those before it.                     *)
Continues(i) ==
    LET m == setup_msgs[i]
    IN  \/ i > 1 /\ m[2] = setup_msgs[i - 1][2] + DataLength(setup_msgs[i - 1])
        \/ /\ m[2] = Block(m) * \h1000
           /\ i > 1 => Block(m) > Block(setup_msgs[i - 1])

EndsWithChecksum == Block(setup_msgs[NB_SETUP_MESSAGES]) = \hf

(* The pipes of the characteristics are those of the program.              *)
PipesAgree ==
    FlattenSeq([i \in 1..Len(CharacteristicTypes) |-> PipesOf(CharacteristicTypes[i])])
        = [p \in 1..Len(services_pipe_type_mapping) |-> services_pipe_type_mapping[p].type]

=============================================================================
