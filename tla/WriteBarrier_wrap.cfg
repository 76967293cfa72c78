SPECIFICATION CompleteSpec
CONSTANT Top = 6
PROPERTY BarrierReleased
