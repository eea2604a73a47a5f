-------------------------------- MODULE AppEnv --------------------------------
(***************************************************************************)
(* The frontend's configuration (frontend/lib/env.ts, config.ts): someone  *)
(* writes .env.local, with a slip, and starts the server until it comes    *)
(* up, correcting each time what the error names.                          *)
(*                                                                         *)
(* A contract ID is the sequence of its characters, each by its index in   *)
(* the base32 alphabet.  URLs and the passphrase are what their tests tell *)
(* apart.                                                                  *)
(***************************************************************************)
EXTENDS Integers, Sequences, SequencesExt, Bitwise

CONSTANTS
  IdLength  \* bound: characters of a contract ID, 56 in the code

VARIABLES
  input,     \* the variables set, as written
  problems,  \* variables the last start named, corrected since if empty
  env,       \* the validated environment of a running server
  failures   \* the problems of each failed start

vars == <<input, problems, env, failures>>

Unset == << >>
Space == 32
NoBase32 == 33   \* a character outside the alphabet
NotRunning == [running |-> FALSE]

------------------------------------------------------------------------------
(* Contract IDs.                                                           *)

(* The bytes, five bits of the buffer per character; a character's worth   *)
(* of bits left over is data that no byte was made of.                     *)
base32Decode(id) ==
  FoldLeft(LAMBDA d, index :
             LET buffer == ((d.buffer * 32) + index) % 4096   \* the bits a byte is taken from
             IN  IF d.bits + 5 < 8
                 THEN [d EXCEPT !.buffer = buffer, !.bits = @ + 5]
                 ELSE [bytes |-> Append(d.bytes, (buffer \div 2 ^ (d.bits - 3)) % 256),
                       buffer |-> buffer, bits |-> d.bits - 3],
           [bytes |-> << >>, buffer |-> 0, bits |-> 0], id)

Decodable(id) == ToSet(id) \subseteq 0 .. 31 /\ base32Decode(id).bits < 5

(* One step of the division by 0x1021.                                     *)
Shifted(crc) == IF crc >= 32768 THEN ((crc * 2) % 65536) ^^ 4129 ELSE crc * 2

crc16XModem(data) ==
  FoldLeft(LAMBDA crc, byte : FoldLeft(LAMBDA c, i : Shifted(c), crc ^^ (byte * 256),
                                       <<1, 2, 3, 4, 5, 6, 7, 8>>),
           0, data)

(* The two bytes the payload is followed by, the low one first.            *)
Checksum(payload) ==
  LET crc == crc16XModem(payload) IN <<crc % 256, crc \div 256>>

VersionByte == 16   \* 2 << 3

(* Mutant: the shape is right, and nothing looks at the checksum.          *)
isValidShape(id) == Decodable(id) /\ Len(id) > 4 /\ base32Decode(id).bytes[1] = VersionByte

isValidStrkey(id) ==
  /\ Decodable(id)
  /\ LET decoded == base32Decode(id).bytes
         payload == SubSeq(decoded, 1, Len(decoded) - 2)
     IN  /\ Len(decoded) >= 3
         /\ payload[1] = VersionByte
         /\ Checksum(payload) = SubSeq(decoded, Len(decoded) - 1, Len(decoded))

isValidContractId(id) == Len(id) = IdLength /\ isValidStrkey(id)

------------------------------------------------------------------------------
(* What is written into .env.local.                                        *)

(* The IDs of the deployed contracts, as the network prints them: whole    *)
(* characters, since 5 * IdLength is a multiple of 8.                      *)
Printed(payload) ==
  LET bytes == payload \o Checksum(payload)
      bit(k) == (bytes[((k - 1) \div 8) + 1] \div 2 ^ (7 - ((k - 1) % 8))) % 2
  IN  [c \in 1 .. IdLength |-> 16 * bit(5 * c - 4) + 8 * bit(5 * c - 3) + 4 * bit(5 * c - 2)
                               + 2 * bit(5 * c - 1) + bit(5 * c)]

IdOf(contract) ==
  Printed([n \in 1 .. ((5 * IdLength) \div 8) - 2 |->
             IF n = 1 THEN VersionByte
             ELSE (n * 83 + contract * 29) % 256])

Governance == IdOf(1)
Token == IdOf(2)

(* One character wrong, two neighbours swapped, one missing or doubled, a  *)
(* blank before or after, nothing but a blank.                             *)
Slips(id) ==
  {[id EXCEPT ![i] = c] : i \in 1 .. IdLength, c \in (0 .. 31) \cup {NoBase32}}
  \cup {[id EXCEPT ![i] = id[i + 1], ![i + 1] = id[i]] : i \in 1 .. IdLength - 1}
  \cup {RemoveAt(id, i) : i \in 1 .. IdLength}
  \cup {InsertAt(id, i, id[i]) : i \in 1 .. IdLength}
  \cup {<<Space>> \o id, Append(id, Space), <<Space>>}

Typical == [governance : {Unset, Governance, Append(Governance, 0)},
            token : {Unset, Token, Append(Token, 0)},
            flag : {"unset", "0", "1", "other"},
            rpc : {"unset", "http", "other"},
            passphrase : {"unset", "short", "long"},
            site : {"unset", "http", "other"}]

Bare == [governance |-> Unset, token |-> Unset, flag |-> "unset", rpc |-> "unset",
         passphrase |-> "unset", site |-> "unset"]

Slipped ==
  {[Bare EXCEPT !.governance = id, !.flag = flag] :
     id \in Slips(Governance), flag \in {"unset", "0"}}
  \cup {[Bare EXCEPT !.governance = Governance, !.token = id] : id \in Slips(Token)}

Init ==
  /\ input \in Typical \cup Slipped
  /\ problems = {}
  /\ env = NotRunning
  /\ failures = << >>

------------------------------------------------------------------------------
(* A variable without the blanks around it; nothing but blanks is unset.   *)
clean(value) ==
  LET solid == {i \in 1 .. Len(value) : value[i] # Space}
  IN  IF solid = {} THEN Unset ELSE SubSeq(value, Min(solid), Max(solid))

(* Mutant: the first problem found ends the validation.                    *)
FirstProblem(in) ==
  LET gov == clean(in.governance)
      token == clean(in.token)
  IN  CASE in.flag = "other" -> {"flag"}
        [] gov # Unset /\ ~isValidContractId(gov) -> {"governance"}
        [] token # Unset /\ ~isValidContractId(token) -> {"token"}
        [] gov = Unset /\ in.flag = "0" -> {"governance"}
        [] in.rpc = "other" -> {"rpc"}
        [] in.passphrase = "short" -> {"passphrase"}
        [] in.site = "other" -> {"site"}
        [] OTHER -> {}

ProblemsOf(in) ==
  LET gov == clean(in.governance)
      token == clean(in.token)
      wrong == [flag       |-> in.flag = "other",
                governance |-> IF gov = Unset THEN in.flag = "0" ELSE ~isValidContractId(gov),
                token      |-> token # Unset /\ ~isValidContractId(token),
                rpc        |-> in.rpc = "other",
                passphrase |-> in.passphrase = "short",
                site       |-> in.site = "other"]
  IN  {name \in DOMAIN wrong : wrong[name]}

(* Fixtures on request, or for want of a contract ID where none is asked.  *)
UsesFixture(in) == in.flag = "1" \/ (clean(in.governance) = Unset /\ in.flag # "0")

(* loadEnv, as getEnv runs it on the first import of config.ts.            *)
Start ==
  /\ ~env.running
  /\ problems = {}
  /\ LET found == ProblemsOf(input)
     IN  IF found = {}
         THEN /\ env' = [running |-> TRUE, useFixture |-> UsesFixture(input),
                         governance |-> clean(input.governance), token |-> clean(input.token)]
              /\ UNCHANGED <<problems, failures>>
         ELSE /\ problems' = found
              /\ failures' = Append(failures, found)
              /\ UNCHANGED env
  /\ UNCHANGED input

(* Each variable the error names is given a right value; others stay.      *)
Corrected(name) ==
  CASE name = "flag"       -> {"0", "1"}
    [] name = "governance" -> {Governance}
    [] name = "token"      -> {Unset, Token}
    [] name = "passphrase" -> {"long"}
    [] OTHER               -> {"http"}

Correct ==
  /\ problems # {}
  /\ \E flag \in IF "flag" \in problems THEN Corrected("flag") ELSE {input.flag},
        token \in IF "token" \in problems THEN Corrected("token") ELSE {input.token} :
       input' = [name \in DOMAIN input |->
                   CASE name = "flag"  -> flag
                     [] name = "token" -> token
                     [] name \in problems /\ name \notin {"flag", "token"} ->
                          CHOOSE value \in Corrected(name) : TRUE
                     [] OTHER -> input[name]]
  /\ problems' = {}
  /\ UNCHANGED <<env, failures>>

Next == Start \/ Correct

------------------------------------------------------------------------------
(* Properties.                                                             *)

(* A server that comes up live reads the contracts that were deployed: no  *)
(* slip in an ID gets past its checksum ("a contract ID with a transposed  *)
(* character has the right shape and is still rejected", env.ts:130-131);  *)
(* and one told to be live never serves the fixtures.                      *)
LiveReadsTheDeployment ==
  env.running =>
    /\ ~env.useFixture => env.governance = Governance /\ env.token \in {Unset, Token}
    /\ input.flag = "0" => ~env.useFixture

(* "Throws EnvError listing every problem rather than the first": whoever  *)
(* corrects what it names is not told of more, but for the contract ID     *)
(* that a flag corrected to 0 asks for.                                    *)
OneRunReportsAll ==
  /\ Len(failures) <= 2
  /\ Len(failures) = 2 =>
       failures[2] = {"governance"} /\ "flag" \in failures[1] /\ input.flag = "0"
==============================================================================
