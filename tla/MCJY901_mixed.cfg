SPECIFICATION AllFairSpec
CONSTANTS
    PacketLength = 11
    Packets <- MixedPackets
    MaxFaults = 2
    NoiseBytes = {85, 0}
    Temperatures <- SomeTemperatures
    Compass_Offset_Angle <- MinOffset
PROPERTIES FrameTruthful DeliveredWhole Resyncs
