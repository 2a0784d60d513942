--------------------------- MODULE MCChipDrivers ---------------------------
(* The drivers of three chips, one of which is in use: At24 on I2C, Oled   *)
(* on SPI, or Dm9000 on the memory bus.  The other two have one initial    *)
(* state.                                                                  *)
EXTENDS At24, Oled, Dm9000, TLC

VARIABLE chosen

chips == <<vars, oled, dmfe, chosen>>

(* Nothing tells one writer of the EEPROM from another.                    *)
Interchangeable == Permutations(Procs \ Reads)

ChipsInit ==
  /\ chosen \in {"at24", "oled", "dm9000"}
  /\ Init /\ OledInit /\ DmfeInit
  /\ chosen # "at24" => \A a \in Cells : cell[a] = CHOOSE b \in Bytes : TRUE
  /\ chosen # "oled" => dc = 0 /\ place = <<0, 0>> /\ spi_buf[1] = 0
  /\ chosen # "dm9000" => Speed = 10

ChipsNext ==
  \/ chosen = "at24" /\ Next /\ UNCHANGED <<oled, dmfe, chosen>>
  \/ chosen = "oled" /\ OledNext /\ UNCHANGED <<vars, dmfe, chosen>>
  \/ chosen = "dm9000" /\ DmfeNext /\ UNCHANGED <<vars, oled, chosen>>

ChipsSpec == ChipsInit /\ [][ChipsNext]_chips
============================================================================
