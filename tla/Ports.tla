------------------------------- MODULE Ports -------------------------------
(* The ports service. A mask is a set of bit positions.                    *)
EXTENDS Board

Channels == {"A", "B", "C", "D", "E", "F", "G"}
BitsOf(n) == {b \in Bits : (n \div 2^b) % 2 = 1}

\* What system_config.h gives for a channel; the rest of it is zero.
Analog == [A |-> BitsOf(\h3F20), B |-> BitsOf(\h2FFF), C |-> BitsOf(\hFFFB),
           D |-> BitsOf(\hC1C0), E |-> BitsOf(\hFFF0), F |-> BitsOf(\hFEC0),
           G |-> BitsOf(\h8F3C)]
Input  == [c \in Channels |-> CASE c = "A" -> BitsOf(\hFFF0)
                                [] c = "B" -> BitsOf(\h2FFE)
                                [] OTHER   -> Bits]
PullUp == [c \in Channels |-> IF c = "A" THEN BitsOf(\h000C) ELSE {}]
Zero   == [c \in Channels |-> {}]

ChannelInitializeDirectionFirst(c) ==   \* mutant: direction before the latch
  SetBits("odc", c, Zero[c])
  \o ClearBits("tris", c, Bits \ Input[c]) \o Write("lat", c, Zero[c])
  \o Write("cnOn", c, TRUE) \o ClearBits("ansel", c, Bits \ Analog[c])
  \o SetBits("cnEn", c, Zero[c]) \o SetBits("cnPu", c, PullUp[c]) \o SetBits("cnPd", c, Zero[c])

ChannelInitialize(c) ==
  SetBits("odc", c, Zero[c]) \o Write("lat", c, Zero[c])
  \o ClearBits("tris", c, Bits \ Input[c])
  \o Write("cnOn", c, TRUE) \o ClearBits("ansel", c, Bits \ Analog[c])
  \o SetBits("cnEn", c, Zero[c]) \o SetBits("cnPu", c, PullUp[c]) \o SetBits("cnPd", c, Zero[c])

PLIB_DEVCON_DeviceRegistersUnlock == Write("iolock", 1, FALSE)
PLIB_PORTS_Remap(function, remapPin) == Write("pps", function, remapPin)

Remapped == [U2RX |-> <<"D", 4>>, U1RX |-> <<"F", 4>>, SDI2 |-> <<"G", 7>>,
             U2TX |-> <<"D", 5>>, U1TX |-> <<"F", 5>>, SS2 |-> <<"C", 2>>]

SYS_PORTS_Initialize ==
  ChannelInitialize("A") \o ChannelInitialize("B") \o ChannelInitialize("C")
  \o ChannelInitialize("D") \o ChannelInitialize("E") \o ChannelInitialize("F")
  \o ChannelInitialize("G")
  \o PLIB_PORTS_Remap("U2RX", Remapped.U2RX) \o PLIB_PORTS_Remap("U1RX", Remapped.U1RX)
  \o PLIB_PORTS_Remap("SDI2", Remapped.SDI2) \o PLIB_PORTS_Remap("U2TX", Remapped.U2TX)
  \o PLIB_PORTS_Remap("U1TX", Remapped.U1TX) \o PLIB_PORTS_Remap("SS2", Remapped.SS2)

-----------------------------------------------------------------------------
(* Channels.                                                               *)

SYS_PORTS_Write(c, value)     == Write("lat", c, value)
SYS_PORTS_Set(c, value, mask) == SetBits("lat", c, value \intersect mask)
SYS_PORTS_Clear(c, clearMask) == ClearBits("lat", c, clearMask)
SYS_PORTS_Toggle(c, toggleMask) == Invert("lat", c, toggleMask)
SYS_PORTS_DirectionSelect(pinDir, c, mask) ==
  IF pinDir = "INPUT" THEN SetBits("tris", c, mask) ELSE ClearBits("tris", c, mask)
SYS_PORTS_DirectionGet(c) == reg.tris[c]
SYS_PORTS_OpenDrainEnable(c, mask)  == IfExists("PortsOpenDrain", SetBits("odc", c, mask))
SYS_PORTS_OpenDrainDisable(c, mask) == IfExists("PortsOpenDrain", ClearBits("odc", c, mask))

(* Change notice, of parts that have one for all channels.                 *)

SYS_PORTS_ChangeNotificationGlobalEnable  == IfExists("ChangeNotice", Write("cnOn", "all", TRUE))
SYS_PORTS_ChangeNotificationGlobalDisable == IfExists("ChangeNotice", Write("cnOn", "all", FALSE))
SYS_PORTS_GlobalChangeNotificationDisable == IfExists("ChangeNotice", Write("cnOn", "all", FALSE))
SYS_PORTS_ChangeNotificationPullUpEnable(pinNum) ==
  IfExists("ChangeNoticePullUp", SetBits("cnPu", "all", {pinNum}))
SYS_PORTS_ChangeNotificationPullUpDisable(pinNum) ==
  IfExists("ChangeNoticePullUp", ClearBits("cnPu", "all", {pinNum}))
SYS_PORTS_ChangeNotificationEnable(pinNum, value) ==
  (IF value = "ENABLE" THEN SYS_PORTS_ChangeNotificationPullUpEnable(pinNum)
                       ELSE SYS_PORTS_ChangeNotificationPullUpDisable(pinNum))
  \o IfExists("PinChangeNotice", SetBits("cnEn", "all", {pinNum}))
SYS_PORTS_ChangeNotificationDisable(pinNum) ==
  IfExists("PinChangeNotice", ClearBits("cnEn", "all", {pinNum}))
SYS_PORTS_ChangeNotificationInIdleModeEnable ==
  IfExists("ChangeNoticeInIdle", Write("cnInIdle", "all", TRUE))
SYS_PORTS_ChangeNotificationInIdleModeDisable ==
  IfExists("ChangeNoticeInIdle", Write("cnInIdle", "all", FALSE))

(* Pins.                                                                   *)

SYS_PORTS_PinModeSelect(c, pin, mode) ==
  IfExists("PinMode", IF mode = "ANALOG" THEN SetBits("ansel", c, {pin})
                                         ELSE ClearBits("ansel", c, {pin}))
SYS_PORTS_PinSet(c, bitPos)    == SetBits("lat", c, {bitPos})
SYS_PORTS_PinClear(c, bitPos)  == ClearBits("lat", c, {bitPos})
SYS_PORTS_PinToggle(c, bitPos) == Invert("lat", c, {bitPos})
SYS_PORTS_PinWrite(c, bitPos, value) ==
  IF value THEN SetBits("lat", c, {bitPos}) ELSE ClearBits("lat", c, {bitPos})
SYS_PORTS_PinDirectionSelect(pinDir, c, bitPos) ==
  IF pinDir = "OUTPUT" THEN ClearBits("tris", c, {bitPos}) ELSE SetBits("tris", c, {bitPos})
SYS_PORTS_PinOpenDrainEnable(c, bitPos) ==
  IfExists("PortsOpenDrain", SetBits("odc", c, {bitPos}))
SYS_PORTS_PinOpenDrainDisable(c, bitPos) ==
  IfExists("PortsOpenDrain", ClearBits("odc", c, {bitPos}))

\* Neither turns interrupts off for the keys, so an interrupt between them makes the
\* write of IOLOCK fail; nor locks again.
Unlocked(steps) == PLIB_DEVCON_SystemUnlock \o PLIB_DEVCON_DeviceRegistersUnlock \o steps
SYS_PORTS_RemapInput(function, remapPin) ==
  IfExists("RemapInput", Unlocked(PLIB_PORTS_Remap(function, remapPin)))
SYS_PORTS_RemapOutput(function, remapPin) ==
  IfExists("RemapOutput", Unlocked(PLIB_PORTS_Remap(function, remapPin)))
=============================================================================
