----------------------------- MODULE AciPackets -----------------------------
(***************************************************************************)
(* The packets of the ACI, the protocol between program and nRF8001: their *)
(* layout in the packed structs of aci_cmds.h and aci_evts.h, the offsets  *)
(* of aci_protocol_defines.h, and the functions of acilib.cpp that encode  *)
(* and decode by those offsets.                                            *)
(*                                                                         *)
(* The value of a field is the sequence of its bytes in memory, the least  *)
(* significant one first, as on the AVR: "(uint8_t)x" is the first byte of *)
(* a uint16_t, and "x >> 8" the second.                                    *)
(***************************************************************************)
EXTENDS Integers, SequencesExt, TLC

(* The values of f, and of g where f has none: the @@ of TLC.              *)
Over(f, g) == [x \in DOMAIN f \cup DOMAIN g |-> IF x \in DOMAIN f THEN f[x] ELSE g[x]]

(* Bytes of scalars.                                                       *)
Byte(x) == <<x % 256>>
Word(x) == <<x % 256, (x \div 256) % 256>>

ACI_PACKET_MAX_LEN == 32
ACI_ECHO_DATA_MAX_LEN == ACI_PACKET_MAX_LEN - 3
ACI_PIPE_TX_DATA_MAX_LEN == 20
ACI_PIPE_RX_DATA_MAX_LEN == 22
BTLE_DEVICE_ADDRESS_SIZE == 6

-----------------------------------------------------------------------------
(* Opcodes.                                                                *)
aci_cmd_opcode_t ==
    [test |-> 1, echo |-> 2, dtm_cmd |-> 3, sleep |-> 4, wakeup |-> 5, setup |-> 6,
     read_dynamic_data |-> 7, write_dynamic_data |-> 8, get_device_version |-> 9,
     get_device_address |-> 10, get_battery_level |-> 11, get_temperature |-> 12,
     set_local_data |-> 13, radio_reset |-> 14, connect |-> 15, bond |-> 16,
     disconnect |-> 17, set_tx_power |-> 18, change_timing |-> 19,
     open_remote_pipe |-> 20, send_data |-> 21, send_data_ack |-> 22,
     request_data |-> 23, send_data_nack |-> 24, set_app_latency |-> 25,
     set_key |-> 26, open_adv_pipe |-> 27, broadcast |-> 28,
     bond_security_request |-> 29, connect_direct |-> 30, close_remote_pipe |-> 31]

aci_evt_opcode_t ==
    [device_started |-> 129, echo |-> 130, hw_error |-> 131, cmd_rsp |-> 132,
     connected |-> 133, disconnected |-> 134, bond_status |-> 135,
     pipe_status |-> 136, timing |-> 137, data_credit |-> 138, data_ack |-> 139,
     data_received |-> 140, pipe_error |-> 141, display_passkey |-> 142,
     key_request |-> 143]

-----------------------------------------------------------------------------
(* The structs: the fields in order, with their sizes. A struct within one *)
(* (aci_tx_data_t, aci_rx_data_t, aci_ll_conn_params_t) is written out.    *)
aci_tx_data_t == << <<"pipe_number", 1>>, <<"aci_data", ACI_PIPE_TX_DATA_MAX_LEN>> >>
aci_rx_data_t == << <<"pipe_number", 1>>, <<"aci_data", ACI_PIPE_RX_DATA_MAX_LEN>> >>
aci_ll_conn_params_t == << <<"min_conn_interval", 2>>, <<"max_conn_interval", 2>>,
                           <<"slave_latency", 2>>, <<"timeout_mult", 2>> >>
PipeNumber == << <<"pipe_number", 1>> >>
Advertising == << <<"timeout", 2>>, <<"adv_interval", 2>> >>

(* Parameters of the commands about the device, its setup and its link ... *)
link_cmd_params ==
    [test |-> << <<"test_mode_change", 1>> >>,
     echo |-> << <<"echo_data", ACI_ECHO_DATA_MAX_LEN>> >>,
     dtm_cmd |-> << <<"cmd_msb", 1>>, <<"cmd_lsb", 1>> >>,
     setup |-> << <<"setup_data", 1>> >>,
     write_dynamic_data |-> << <<"seq_no", 1>>, <<"dynamic_data", 1>> >>,
     set_local_data |-> aci_tx_data_t,
     connect |-> Advertising,
     bond |-> Advertising,
     disconnect |-> << <<"reason", 1>> >>,
     set_tx_power |-> << <<"device_power", 1>> >>,
     change_timing |-> aci_ll_conn_params_t]

(* ... and of those about pipes and their data, and what follows them.     *)
pipe_cmd_params ==
    [open_remote_pipe |-> PipeNumber,
     send_data |-> aci_tx_data_t,
     send_data_ack |-> PipeNumber,
     request_data |-> PipeNumber,
     send_data_nack |-> << <<"pipe_number", 1>>, <<"error_code", 1>> >>,
     set_app_latency |-> << <<"mode", 1>>, <<"latency", 2>> >>,
     set_key |-> << <<"key_type", 1>>, <<"key", 16>> >>,
     open_adv_pipe |-> << <<"pipes", 8>> >>,
     broadcast |-> Advertising,
     close_remote_pipe |-> PipeNumber]

CmdParams(cmd) ==
    CASE cmd \in DOMAIN link_cmd_params -> link_cmd_params[cmd]
      [] cmd \in DOMAIN pipe_cmd_params -> pipe_cmd_params[cmd]
      [] OTHER -> <<>>

(* What follows the opcode and the status in a response to a command.      *)
aci_evt_params_cmd_rsp_t ==
    [dtm_cmd |-> << <<"evt_msb", 1>>, <<"evt_lsb", 1>> >>,
     read_dynamic_data |-> << <<"seq_no", 1>>, <<"dynamic_data", 1>> >>,
     get_device_version |->
        << <<"configuration_id", 2>>, <<"aci_version", 1>>, <<"setup_format", 1>>,
           <<"setup_id", 4>>, <<"setup_status", 1>> >>,
     get_device_address |->
        << <<"bd_addr_own", BTLE_DEVICE_ADDRESS_SIZE>>, <<"bd_addr_type", 1>> >>,
     get_battery_level |-> << <<"battery_level", 2>> >>,
     get_temperature |-> << <<"temperature_value", 2>> >>]

ConnectionTiming ==
    << <<"conn_rf_interval", 2>>, <<"conn_slave_rf_latency", 2>>, <<"conn_rf_timeout", 2>> >>

aci_evt_params ==
    [device_started |->
        << <<"device_mode", 1>>, <<"hw_error", 1>>, <<"credit_available", 1>> >>,
     echo |-> << <<"echo_data", ACI_ECHO_DATA_MAX_LEN>> >>,
     hw_error |-> << <<"line_num", 2>>, <<"file_name", 20>> >>,
     cmd_rsp |-> << <<"cmd_opcode", 1>>, <<"cmd_status", 1>> >>,
     connected |->
        << <<"dev_addr_type", 1>>, <<"dev_addr", BTLE_DEVICE_ADDRESS_SIZE>>,
           <<"conn_rf_interval", 2>>, <<"conn_slave_rf_latency", 2>>,
           <<"conn_rf_timeout", 2>>, <<"master_clock_accuracy", 1>> >>,
     disconnected |-> << <<"aci_status", 1>>, <<"btle_status", 1>> >>,
     bond_status |->
        << <<"status_code", 1>>, <<"status_source", 1>>, <<"secmode1_bitmap", 1>>,
           <<"secmode2_bitmap", 1>>, <<"keys_exchanged_slave", 1>>,
           <<"keys_exchanged_master", 1>> >>,
     pipe_status |-> << <<"pipes_open_bitmap", 8>>, <<"pipes_closed_bitmap", 8>> >>,
     timing |-> ConnectionTiming,
     data_credit |-> << <<"credit", 1>> >>,
     data_ack |-> PipeNumber,
     data_received |-> aci_rx_data_t,
     pipe_error |-> << <<"pipe_number", 1>>, <<"error_code", 1>>, <<"content", 1>> >>,
     display_passkey |-> << <<"passkey", 6>> >>,
     key_request |-> << <<"key_type", 1>> >>]

(* A response's parameters are those of the command that it is to.         *)
EvtParams(evt, cmd) ==
    aci_evt_params[evt] \o
        IF evt = "cmd_rsp" /\ cmd \in DOMAIN aci_evt_params_cmd_rsp_t
            THEN aci_evt_params_cmd_rsp_t[cmd] ELSE <<>>

(* The bytes of packed fields: one after the other. An array at the end of *)
(* a packet is as long as its data, so the size counts for what follows.   *)
Packed(struct, fields) ==
    FlattenSeq([i \in 1..Len(struct) |->
        IF struct[i][1] \in DOMAIN fields THEN fields[struct[i][1]] ELSE <<>>])
SizesFit(struct, fields) ==
    \A i \in 1..Len(struct) - 1 :
        struct[i][1] \in DOMAIN fields => Len(fields[struct[i][1]]) = struct[i][2]

-----------------------------------------------------------------------------
(* aci_protocol_defines.h: at which offset of the parameters each byte of  *)
(* a scalar field is, the LSB first, or where an array starts.             *)
TX_DATA == [pipe_number |-> <<0>>, aci_data |-> <<1>>]
ADVERTISING == [timeout |-> <<0, 1>>, adv_interval |-> <<2, 3>>]
PIPE_NUMBER == [pipe_number |-> <<0>>]

OFFSET_ACI_CMD_PARAMS ==
    [test |-> [test_mode_change |-> <<0>>],
     echo |-> [echo_data |-> <<0>>],
     dtm_cmd |-> [cmd_msb |-> <<0>>, cmd_lsb |-> <<1>>],
     setup |-> [setup_data |-> <<0>>],
     write_dynamic_data |-> [seq_no |-> <<0>>, dynamic_data |-> <<1>>],
     set_local_data |-> TX_DATA, send_data |-> TX_DATA,
     connect |-> ADVERTISING, bond |-> ADVERTISING, broadcast |-> ADVERTISING,
     disconnect |-> [reason |-> <<0>>],
     set_tx_power |-> [device_power |-> <<0>>],
     change_timing |->
        [min_conn_interval |-> <<0, 1>>, max_conn_interval |-> <<2, 3>>,
         slave_latency |-> <<4, 5>>, timeout_mult |-> <<6, 7>>],
     open_remote_pipe |-> PIPE_NUMBER, close_remote_pipe |-> PIPE_NUMBER,
     send_data_ack |-> PIPE_NUMBER, request_data |-> PIPE_NUMBER,
     send_data_nack |-> [pipe_number |-> <<0>>, error_code |-> <<1>>],
     set_app_latency |-> [mode |-> <<0>>, latency |-> <<1, 2>>],
     set_key |-> [key_type |-> <<0>>, key |-> <<1>>],
     open_adv_pipe |-> [pipes |-> <<0>>]]

OFFSET_ACI_EVT_PARAMS ==
    [device_started |->
        [device_mode |-> <<0>>, hw_error |-> <<1>>, credit_available |-> <<2>>],
     echo |-> [echo_data |-> <<0>>],
     hw_error |-> [line_num |-> <<0, 1>>, file_name |-> <<2>>],
     cmd_rsp |-> [cmd_opcode |-> <<0>>, cmd_status |-> <<1>>],
     connected |->
        [dev_addr_type |-> <<0>>, dev_addr |-> <<1>>, conn_rf_interval |-> <<7, 8>>,
         conn_slave_rf_latency |-> <<9, 10>>, conn_rf_timeout |-> <<11, 12>>,
         master_clock_accuracy |-> <<13>>],
     disconnected |-> [aci_status |-> <<0>>, btle_status |-> <<1>>],
     bond_status |->
        [status_code |-> <<0>>, status_source |-> <<1>>, secmode1_bitmap |-> <<2>>,
         secmode2_bitmap |-> <<3>>, keys_exchanged_slave |-> <<4>>,
         keys_exchanged_master |-> <<5>>],
     pipe_status |-> [pipes_open_bitmap |-> <<0>>, pipes_closed_bitmap |-> <<8>>],
     timing |->
        [conn_rf_interval |-> <<0, 1>>, conn_slave_rf_latency |-> <<2, 3>>,
         conn_rf_timeout |-> <<4, 5>>],
     data_credit |-> [credit |-> <<0>>],
     data_ack |-> PIPE_NUMBER,
     data_received |-> [pipe_number |-> <<0>>, aci_data |-> <<1>>],
     pipe_error |-> [pipe_number |-> <<0>>, error_code |-> <<1>>, content |-> <<2>>],
     display_passkey |-> [passkey |-> <<0>>],
     key_request |-> [key_type |-> <<0>>]]

(* All of a response's parameters come after opcode and status.            *)
OFFSET_ACI_EVT_CMD_RSP ==
    [dtm_cmd |-> [evt_msb |-> <<2>>, evt_lsb |-> <<3>>],
     read_dynamic_data |-> [seq_no |-> <<2>>, dynamic_data |-> <<3>>],
     get_device_version |->
        [configuration_id |-> <<2, 3>>, aci_version |-> <<4>>, setup_format |-> <<5>>,
         setup_id |-> <<6, 7, 8, 9>>, setup_status |-> <<10>>],
     get_device_address |-> [bd_addr_own |-> <<2>>, bd_addr_type |-> <<8>>],
     get_battery_level |-> [battery_level |-> <<2, 3>>],
     get_temperature |-> [temperature_value |-> <<2, 3>>]]

(* Length, opcode, then parameters; where the k-th byte of a field is.     *)
OFFSET_PARAMS == 2
Place(offsets, k) ==
    OFFSET_PARAMS + IF k <= Len(offsets) THEN offsets[k] ELSE Last(offsets) + k - Len(offsets)

-----------------------------------------------------------------------------
(* The MSG_..._LEN of acilib.h: the length byte of a command whose length  *)
(* is fixed, or to which that of the data is added.                        *)
MSG_LEN ==
    [test |-> 2, set_local_data |-> 2, connect |-> 5, bond |-> 5, disconnect |-> 2,
     set_tx_power |-> 2, send_data |-> 2, request_data |-> 2, open_remote_pipe |-> 2,
     close_remote_pipe |-> 2, dtm_cmd |-> 3, write_dynamic_data |-> 2, setup |-> 1,
     echo |-> 1, change_timing |-> 9, set_app_latency |-> 4, send_data_ack |-> 2,
     send_data_nack |-> 3, broadcast |-> 5, open_adv_pipe |-> 9]
MSG_CHANGE_TIMING_LEN_GAP_PPCP == 1
MSG_SET_KEY_REJECT_LEN == 2
MSG_SET_KEY_PASSKEY_LEN == 8
ACI_KEY_TYPE_INVALID == 0
ACI_KEY_TYPE_PASSKEY == 1

KeyTypes == {Byte(ACI_KEY_TYPE_INVALID), Byte(ACI_KEY_TYPE_PASSKEY)}

DataField ==
    [set_local_data |-> "aci_data", send_data |-> "aci_data", echo |-> "echo_data",
     write_dynamic_data |-> "dynamic_data", setup |-> "setup_data"]

NoArguments == [f \in {} |-> <<>>]

(* MUTANT: what comes before the data is not counted.                      *)
EncodedLengthOfData(cmd, args) ==
    IF cmd \in DOMAIN DataField THEN 1 + Len(args[DataField[cmd]]) ELSE 1

(* The length byte each encoder writes. A key of a type that               *)
(* aci_key_type_t does not have would get 0, and the encoder would go on   *)
(* to copy 0 - 2 bytes of it.                                              *)
EncodedLength(cmd, args) ==
    CASE cmd \in DOMAIN DataField -> MSG_LEN[cmd] + Len(args[DataField[cmd]])
      [] cmd = "set_key" /\ args.key_type = Byte(ACI_KEY_TYPE_INVALID) ->
            MSG_SET_KEY_REJECT_LEN
      [] cmd = "set_key" /\ args.key_type = Byte(ACI_KEY_TYPE_PASSKEY) ->
            MSG_SET_KEY_PASSKEY_LEN
      [] cmd = "set_key" /\ args.key_type \notin KeyTypes -> 0
      [] cmd = "change_timing" /\ DOMAIN args = {} -> MSG_CHANGE_TIMING_LEN_GAP_PPCP
      [] cmd \notin DOMAIN MSG_LEN \cup {"set_key"} -> 1
      [] OTHER -> MSG_LEN[cmd]

(* What an encoder writes into a buffer: the bytes at the offsets written. *)
Encode(cmd, args) ==
    LET at(f, k) == Place(OFFSET_ACI_CMD_PARAMS[cmd][f], k)
        bytes == UNION {{<<f, k>> : k \in 1..Len(args[f])} : f \in DOMAIN args}
        written == {at(b[1], b[2]) : b \in bytes}
    IN  [i \in {0, 1} \cup written |->
            CASE i = 0 -> EncodedLength(cmd, args)
              [] i = 1 -> aci_cmd_opcode_t[cmd]
              [] OTHER -> LET b == CHOOSE c \in bytes : at(c[1], c[2]) = i
                          IN  args[b[1]][b[2]]]

(* MUTANT: the length byte is taken to count the data alone.               *)
DecodedSizeOfData(f, offsets, length) ==
    IF f \in {"aci_data", "echo_data", "file_name", "dynamic_data"} THEN length
                                                                     ELSE Len(offsets)

(* How many bytes of a field the decoders take.                            *)
DecodedSize(f, offsets, length) ==
    CASE f = "aci_data" -> length - 2
      [] f \in {"file_name", "dynamic_data"} -> length - 3
      [] f = "echo_data" -> length - 1
      [] f \in {"dev_addr", "bd_addr_own"} -> BTLE_DEVICE_ADDRESS_SIZE
      [] f \in {"pipes_open_bitmap", "pipes_closed_bitmap"} -> 8
      [] f = "passkey" -> 6
      [] OTHER -> Len(offsets)

DecodeFields(offsets, buffer) ==
    [f \in DOMAIN offsets |->
        [k \in 1..DecodedSize(f, offsets[f], buffer[0]) |-> buffer[Place(offsets[f], k)]]]

OpcodeName(opcodes, byte) == CHOOSE name \in DOMAIN opcodes : opcodes[name] = byte

(* The fields of an event, as the functions acil_decode_evt_... find them. *)
acil_decode_evt_command_response(buffer) ==
    LET common == DecodeFields(OFFSET_ACI_EVT_PARAMS.cmd_rsp, buffer)
        cmd == OpcodeName(aci_cmd_opcode_t, common.cmd_opcode[1])
    IN  IF cmd \in DOMAIN OFFSET_ACI_EVT_CMD_RSP
            THEN Over(DecodeFields(OFFSET_ACI_EVT_CMD_RSP[cmd], buffer), common)
            ELSE common

acil_decode_evt_echo(buffer) == DecodeFields(OFFSET_ACI_EVT_PARAMS.echo, buffer)

(* An echo is not among the events that this function decodes.             *)
acil_decode_evt(buffer) ==
    LET evt == OpcodeName(aci_evt_opcode_t, buffer[1])
    IN  CASE evt = "cmd_rsp" -> acil_decode_evt_command_response(buffer)
          [] evt = "echo" -> NoArguments
          [] OTHER -> DecodeFields(OFFSET_ACI_EVT_PARAMS[evt], buffer)

=============================================================================
