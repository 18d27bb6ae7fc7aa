---------------------------- MODULE DriverCalls -----------------------------
(***************************************************************************)
(* The functions of a driver that are one call each.  Those that compose,  *)
(* update, clear and decode a register of 32 bits, given as the set of its *)
(* bits that are 1:                                                        *)
(*   ring_doorbell                        doorbell_command_register.c      *)
(*   ctrl_set_mode, ctrl_set_timeout      control_reg_field_update.c       *)
(*   status_ready, _busy, _state,                                          *)
(*   clear_done_error_timeout             status_reg_parse_and_w1c.c       *)
(*   clear_done                           labs/w1c_rmw_bug.c               *)
(*   parse_fw_caps                        capability_register_parser.c     *)
(*   parse_pcie_link_status               pcie_link_status_parser.c        *)
(* and the checks made before hardware or firmware is touched:             *)
(*   validate_fw_cmd                      firmware_command_validator.c     *)
(*   valid_mmio_access                    register_offset_validation.c     *)
(*   build_bus_ctrl                       i2c_spi_register_config_helper.c *)
(*   validate_user_cmd                    safe_ioctl_validator.c           *)
(*   fw_cmd_set_payload                   bounded_copy_into_fw_buffer.c    *)
(* A behavior is one call and its outcome: the register afterwards and the *)
(* answer, an int or a truth value.  Flags are the set of their bits; the  *)
(* addresses of valid_mmio_access have Width bits (32 in the code).        *)
(***************************************************************************)
EXTENDS Integers, FiniteSets, FiniteSetsExt

CONSTANTS EdgeBits,          \* the bits in which the registers passed differ
          Width, MaxPayload

CallAssumption == EdgeBits \subseteq 0 .. 31 /\ Width \in Nat /\ MaxPayload \in Nat

VARIABLES call, ret

vars == <<call, ret>>

\* v << n, for v below 2^31, and the number that the bits lo to hi make.
Shl(v, n) == {b + n : b \in {k \in 0 .. 30 : (v \div 2^k) % 2 = 1}} \cap 0 .. 31
Field(reg, lo, hi) == MapThenSumSet(LAMBDA b : 2^(b - lo), reg \cap lo .. hi)
Corner(max) == {0, 1, max, max + 1}

RegisterCalls == [fn : {"ring_doorbell"}, reg : {{}, EdgeBits}, queue_id : Corner(255),
          opcode : Corner(255), seq : Corner(4095)]
  \cup [fn : {"ctrl_set_mode"}, reg : SUBSET EdgeBits, arg : 0 .. 8]
  \cup [fn : {"ctrl_set_timeout"}, reg : SUBSET EdgeBits, arg : Corner(255)]
  \cup [fn : {"status", "clear_done_error_timeout", "clear_done", "parse_fw_caps"},
        reg : SUBSET EdgeBits]
  \cup [fn : {"parse_pcie_link_status"}, reg : SUBSET (EdgeBits \cap 0 .. 15),
        expected_gen : {1, 5}, expected_width : {1, 16}, out : {"NULL", "given"}]

ring_doorbell(c) ==
  IF c.queue_id > 255 \/ c.opcode > 255 \/ c.seq > 4095
  THEN [reg |-> c.reg, int |-> -1]
  ELSE [reg |-> (Shl(c.queue_id, 0) \cap 0 .. 7) \cup (Shl(c.opcode, 8) \cap 8 .. 15)
                  \cup (Shl(c.seq, 16) \cap 16 .. 27) \cup {31}, int |-> 0]

ctrl_set_mode(c) == IF c.arg > 7 THEN [reg |-> c.reg, int |-> -1]
                    ELSE [reg |-> (c.reg \ 4 .. 6) \cup Shl(c.arg, 4), int |-> 0]

\* The shift by CTRL_TIMEOUT_MASK is undefined: the processor may take the
\* distance modulo 32, which is 0, or the compiler leave nothing of the value.
ctrl_set_timeout(c, shifted) ==
  IF c.arg > 255 THEN [reg |-> c.reg, int |-> -1]
  ELSE [reg |-> (c.reg \ 8 .. 15) \cup shifted, int |-> 0]

\* A bit that is written as 1 is cleared, if it is one of those.
WriteOneClears(reg, w1c, written) == reg \ (w1c \cap written)
clear_done_error_timeout(c) == [reg |-> WriteOneClears(c.reg, {2, 3, 4}, {2, 3, 4}), int |-> 0]
clear_done(c) == [reg |-> WriteOneClears(c.reg, {0, 1, 2}, c.reg \ {0}), int |-> 0]

status(c) == [reg |-> c.reg, ready |-> 0 \in c.reg, busy |-> 1 \in c.reg,
              state |-> Field(c.reg, 8, 11)]

\* Line 34 names the field reserved_bits_detected and leaves it false.
parse_fw_caps(c) == [reg |-> c.reg, flags |-> c.reg \cap 0 .. 3,
                     generation |-> Field(c.reg, 8, 11), num_links |-> Field(c.reg, 16, 23),
                     reserved_bits_detected |-> FALSE]

\* The masks are not in the file: speed in bits 0-3, width in bits 4-9.
parse_pcie_link_status(c) ==
  LET speed_gen == Field(c.reg, 0, 3)
      width == Field(c.reg, 4, 9)
  IN IF c.out = "NULL" THEN [reg |-> c.reg, int |-> -1]
     ELSE [reg |-> c.reg, speed_gen |-> speed_gen, width |-> width, training |-> 11 \in c.reg,
           degraded |-> speed_gen # c.expected_gen \/ width # c.expected_width]

Words == 0 .. 2^Width - 1
Lengths == {0, MaxPayload, MaxPayload + 1}
States == {"BOOTING", "READY", "ACTIVE", "RESETTING", "FAULTED"}
GET_STATUS == 1
GET_CAPS == 2
RESET == 3
PEEK == 4
POKE == 5

FwCmds == [fn : {"fw"}, opcode : 0 .. 6, length : Lengths,
           flags : SUBSET {"ASYNC", "PRIVILEGED", "reserved"},
           state : States, privileged : BOOLEAN]
Accesses == [fn : {"mmio"}, offset : Words, width : Words, region_size : Words]
BusConfigs == [fn : {"bus"}, mode : {"I2C", "SPI", "unknown"},
               clock_divider : {0, 1, 255, 256}, chip_select : {0, 15, 16},
               cpol : BOOLEAN, cpha : BOOLEAN, addr10 : BOOLEAN, enable : BOOLEAN]
MaxOpcode == 9               \* CMD_OPCODE_MAX, which is defined elsewhere
UserCmds == [fn : {"user"}, null : BOOLEAN, version : 0 .. 2, payload_len : Lengths,
             flags : SUBSET {"known", "reserved"}, opcode : {0, MaxOpcode, MaxOpcode + 1}]
Payloads == [fn : {"payload"}, cmd : BOOLEAN, src : BOOLEAN,
             len : Lengths \cup {1, 2^16, 2^16 + 1}]

\* validate_fw_cmd.  The state check of CMD_RESET is true of every state.
ResetRefused(c) == \/ c.state # "READY" \/ c.state # "ACTIVE" \/ c.state # "FAULTED"
WrongState(c) == \/ c.opcode = GET_CAPS /\ c.state = "BOOTING"
                 \/ c.opcode = RESET /\ ResetRefused(c)
                 \/ c.opcode = PEEK /\ (c.state = "BOOTING" \/ ~c.privileged)
                 \/ c.opcode = POKE /\ (c.state # "READY" \/ ~c.privileged)
validate_fw_cmd(c) ==
  IF c.opcode < 1 \/ c.opcode > 5 THEN -2
  ELSE IF c.length > MaxPayload THEN -3
  ELSE IF "reserved" \in c.flags THEN -4
  ELSE IF "PRIVILEGED" \in c.flags /\ ~c.privileged THEN -5
  ELSE IF WrongState(c) THEN -6 ELSE 0

\* offset & (width - 1) is offset modulo a width that is a power of two.
valid_mmio_access(c) == /\ c.width \in {1, 2, 4, 8} /\ c.offset % c.width = 0
                        /\ c.width <= c.region_size
                        /\ c.offset <= c.region_size - c.width

\* build_bus_ctrl.  The check of the mode is true of every mode, so that the
\* rest of the function is never reached.
build_bus_ctrl(c) == IF c.mode # "I2C" \/ c.mode # "SPI" THEN -2 ELSE 0

validate_user_cmd(c) ==
  IF c.null THEN -1
  ELSE IF \/ c.version # 1 \/ "reserved" \in c.flags
          \/ c.opcode > MaxOpcode \/ c.payload_len > MaxPayload THEN -2 ELSE 0

\* cmd and src are not NULL.  The copied bytes are counted; length has 16 bits.
fw_cmd_set_payload(c) ==
  IF ~c.cmd THEN [int |-> -1]
  ELSE IF ~c.src /\ c.len > 0 THEN [int |-> -2]
  ELSE IF c.len > MaxPayload THEN [int |-> -3]
  ELSE [int |-> 0, copied |-> c.len, length |-> c.len % 2^16]

Outcomes(c) == CASE c.fn = "ring_doorbell" -> {ring_doorbell(c)}
                 [] c.fn = "ctrl_set_mode" -> {ctrl_set_mode(c)}
                 [] c.fn = "ctrl_set_timeout" -> {ctrl_set_timeout(c, s) : s \in {Shl(c.arg, 0), {}}}
                 [] c.fn = "status" -> {status(c)}
                 [] c.fn = "clear_done_error_timeout" -> {clear_done_error_timeout(c)}
                 [] c.fn = "clear_done" -> {clear_done(c)}
                 [] c.fn = "parse_fw_caps" -> {parse_fw_caps(c)}
                 [] c.fn = "parse_pcie_link_status" -> {parse_pcie_link_status(c)}
                 [] c.fn = "fw" -> {[int |-> validate_fw_cmd(c)]}
                 [] c.fn = "mmio" -> {[bool |-> valid_mmio_access(c)]}
                 [] c.fn = "bus" -> {[int |-> build_bus_ctrl(c)]}
                 [] c.fn = "user" -> {[int |-> validate_user_cmd(c)]}
                 [] c.fn = "payload" -> {fw_cmd_set_payload(c)}

TypeOK == ret # <<>> =>
  IF "reg" \in DOMAIN call THEN ret.reg \subseteq 0 .. 31
  ELSE ret \in [int : -6 .. 0] \cup [bool : BOOLEAN]
                 \cup [int : {0}, copied : Lengths \cup {1}, length : 0 .. 2^16 - 1]

Init == /\ call \in RegisterCalls \cup FwCmds \cup Accesses \cup BusConfigs \cup UserCmds \cup Payloads
        /\ ret = <<>>
Next == ret' \in Outcomes(call) /\ UNCHANGED call
Spec == Init /\ [][Next]_vars
-----------------------------------------------------------------------------
Returned(fn) == call.fn = fn /\ ret # <<>>

\* "Validate each field fits.  Compose one 32-bit value.  Set DB_VALID.": what
\* is rung reads back as what was passed and nothing else, and what does not fit
\* is not rung.  "Preserve unrelated bits": ctrl_set_mode changes its field.
\* ctrl_set_timeout does not put the timeout in its field, whatever the shift of
\* line 50 does, and may set bits of the others; none but the field's is cleared.
FieldsExact ==
  /\ Returned("ring_doorbell") =>
       LET fits == call.queue_id < 2^8 /\ call.opcode < 2^8 /\ call.seq < 2^12 IN
       /\ ret.int = (IF fits THEN 0 ELSE -1)
       /\ fits => /\ Field(ret.reg, 0, 7) = call.queue_id
                  /\ Field(ret.reg, 8, 15) = call.opcode
                  /\ Field(ret.reg, 16, 30) = call.seq /\ 31 \in ret.reg
       /\ ~fits => ret.reg = call.reg
  /\ Returned("ctrl_set_mode") =>
       /\ ret.int = (IF call.arg < 2^3 THEN 0 ELSE -1) /\ ret.reg \ 4 .. 6 = call.reg \ 4 .. 6
       /\ Field(ret.reg, 4, 6) = IF ret.int = 0 THEN call.arg ELSE Field(call.reg, 4, 6)
  /\ Returned("ctrl_set_timeout") /\ ret.int = 0 =>
       Field(ret.reg, 8, 15) = 0 /\ call.reg \ 8 .. 15 \subseteq ret.reg

\* The lab's clear_done, as its first question says, "accidentally clear[s] other
\* W1C bits": all of them that are set, and not STAT_DONE.
ClearsExact == Returned("clear_done") => ret.reg = call.reg \ {1, 2}

\* The decoded fields make up the register again, up to the bits nobody knows,
\* and a link that is slower or narrower than expected is degraded.
DecodesExact ==
  /\ Returned("parse_fw_caps") =>
       ret.flags \cup Shl(ret.generation, 8) \cup Shl(ret.num_links, 16)
         = call.reg \cap (0 .. 3 \cup 8 .. 11 \cup 16 .. 23)
  /\ Returned("parse_pcie_link_status") /\ call.out = "given" =>
       /\ Shl(ret.speed_gen, 0) \cup Shl(ret.width, 4) = call.reg \cap 0 .. 9
       /\ ret.speed_gen < call.expected_gen \/ ret.width < call.expected_width => ret.degraded
  /\ Returned("status") => Shl(ret.state, 8) = call.reg \cap 8 .. 11

\* The requirements on firmware commands: a command is valid exactly when its
\* header is well formed, its caller has the privileges and its opcode is allowed
\* in the state; but a CMD_RESET is refused in every state (line 81), also in the
\* three in which it is allowed.
FwAllowed == /\ call.opcode \in {GET_STATUS, GET_CAPS, RESET, PEEK, POKE}
             /\ call.length <= MaxPayload /\ "reserved" \notin call.flags
             /\ "PRIVILEGED" \in call.flags => call.privileged
             /\ call.opcode \in {GET_CAPS, PEEK} => call.state # "BOOTING"
             /\ call.opcode = POKE => call.state = "READY"
             /\ call.opcode = RESET => call.state \in {"READY", "ACTIVE", "FAULTED"}
             /\ call.opcode \in {PEEK, POKE} => call.privileged
FwExact == Returned("fw") => (ret.int = 0 <=> FwAllowed /\ call.opcode # RESET)

\* The requirements on a bus configuration, of which build_bus_ctrl accepts none:
\* what is allowed is refused with the code of an invalid mode (line 59).
BusAllowed ==
  /\ call.mode \in {"I2C", "SPI"} /\ call.clock_divider \in 1 .. 255
  /\ call.mode = "I2C" => ~call.cpol /\ ~call.cpha /\ call.chip_select = 0
  /\ call.mode = "SPI" => call.chip_select < 2^4 /\ ~call.addr10
BusRefused == Returned("bus") /\ BusAllowed => ret.int = -2

\* An access is allowed exactly when it is aligned and all its bytes are in
\* the region, also at the top of the address range where a sum would wrap.
MmioExact == Returned("mmio") =>
  (ret.bool <=> /\ call.width \in {1, 2, 4, 8}
                /\ \E m \in Words : call.offset = m * call.width
                /\ call.offset + call.width <= call.region_size)

\* "Copy exactly len bytes": the 16 bits of cmd->length hold every length that is
\* copied, and a length that they cannot hold is refused.
LengthWhole == Returned("payload") =>
  /\ ret.int = 0 => ret.length = ret.copied /\ ret.copied = call.len
  /\ call.len >= 2^16 => ret.int # 0
=============================================================================
